---- MODULE Spec2Model ----
(***************************************************************************)
(* A model of jupyter_ydoc: the notebook document (YNotebook), its cell    *)
(* reconciliation (set / aset, get / aget) and the text document           *)
(* (YUnicode).  Python dicts are functions whose DOMAIN is the set of keys *)
(* present; a live cell (a pycrdt Map inside the cells Array) is a record  *)
(* carrying its handle identity h, the kind of its outputs handle and the  *)
(* stored dict d.                                                          *)
(***************************************************************************)
EXTENDS Integers, Sequences, FiniteSets, TLC

\* ------------------------------------------------------------------ bounds
MaxCells == 3      \* longest live cell array / desired cell list explored
MaxUuid == 2       \* uuid4() calls explored along one behaviour
MaxStdin == 1      \* stdin outputs add_stdin puts in one cell

\* ------------------------------------------------------------------ values
NBFORMAT_MAJOR_VERSION == 4
NBFORMAT_MINOR_VERSION == 5

\* _CELL_KEY_TYPE_MAP: the keys whose live value is a nested shared type.
CELL_KEY_TYPE_MAP == {"metadata", "source", "outputs"}

\* A variant of the kept keys in which the path is stripped like any other key.
KEPT_STATE_KEYS_WithoutPath == {"dirty", "document_id"}

\* The keys kept by YNotebook._set in the state map.
KEPT_STATE_KEYS == {"dirty", "path", "document_id"}

\* Python numbers: an int or a float (integer-valued in this model), and None.
PyInt(n) == [t |-> "int", v |-> n]
PyFloat(n) == [t |-> "float", v |-> n]
None == [t |-> "none", v |-> 0]

IsNumber(x) == x.t \in {"int", "float"}

\* Python == on two numbers-or-None: ints and floats compare by value.
NumEq(a, b) ==
    IF IsNumber(a) /\ IsNumber(b) THEN a.v = b.v ELSE a = b

\* The keys of a cell dict whose value is a number or None.
NumKeys == {"execution_count"}

\* Python == on the values of one cell key.
ValEq(key, a, b) == IF key \in NumKeys THEN NumEq(a, b) ELSE a = b

\* Python == on two cell dicts.
CellEq(a, b) ==
    /\ DOMAIN a = DOMAIN b
    /\ \A k \in DOMAIN a : ValEq(k, a[k], b[k])

\* dict without one key / with one key set
DictDel(d, key) == [k \in DOMAIN d \ {key} |-> d[k]]
DictPut(d, key, val) == [k \in DOMAIN d \cup {key} |-> IF k = key THEN val ELSE d[k]]
DictGet(d, key, default) == IF key \in DOMAIN d THEN d[key] ELSE default

\* cast_all on one value (utils.py): from_type -> to_type when the converted
\* value compares equal, which it always does for the integer-valued numbers here.
CastValue(x, from_type, to_type) ==
    IF x.t = from_type THEN [t |-> to_type, v |-> x.v] ELSE x

\* cast_all over a cell dict: only execution_count holds a number.
cast_all_cell(cell, from_type, to_type) ==
    [k \in DOMAIN cell |->
        IF k \in NumKeys THEN CastValue(cell[k], from_type, to_type) ELSE cell[k]]

\* A variant of the metadata comparison that finds every two dicts different.
MetadataEq_Never(a, b) == FALSE

\* The document-level metadata dict: the key "n" holds a number, the others strings.
MetaNumKeys == {"n"}
cast_all_metadata(md, from_type, to_type) ==
    [k \in DOMAIN md |->
        IF k \in MetaNumKeys THEN CastValue(md[k], from_type, to_type) ELSE md[k]]

MetadataEq(a, b) ==
    /\ DOMAIN a = DOMAIN b
    /\ \A k \in DOMAIN a : IF k \in MetaNumKeys THEN NumEq(a[k], b[k]) ELSE a[k] = b[k]

\* A variant of cast_all that converts to float whatever types it is given.
cast_all_nb_ToFloat(nb, from_type, to_type) ==
    [k \in DOMAIN nb |->
        IF k = "metadata" THEN cast_all_metadata(nb[k], "int", "float")
        ELSE CastValue(nb[k], "int", "float")]

\* cast_all over the notebook dict without its cells (nb) or over ymeta.to_py().
cast_all_nb(nb, from_type, to_type) ==
    [k \in DOMAIN nb |->
        IF k = "metadata" THEN cast_all_metadata(nb[k], from_type, to_type)
        ELSE CastValue(nb[k], from_type, to_type)]

\* outputs values: lists of output dicts.  The dicts of the model: one
\* execute_result, one stream output whose text is a string (create_ycell
\* holds it as a Text, to_py gives the string back), and the stdin dicts that
\* add_stdin builds.
ExecuteResult == [output_type |-> "execute_result", data |-> "1"]
StreamOutput == [output_type |-> "stream", name |-> "stdout", text |-> "x"]

\* any(output.get("output_type") == "stream" for output in value)
HasStream(outputs) == \E n \in 1..Len(outputs) : outputs[n].output_type = "stream"
Truthy(outputs) == outputs # <<>>

\* ------------------------------------------------------------------ cells
\* uuid4(): the n-th identifier generated in a behaviour.
Uuid(n) ==
    CASE n = 1 -> "u1" [] n = 2 -> "u2" [] n = 3 -> "u3" [] n = 4 -> "u4"
      [] n = 5 -> "u5" [] n = 6 -> "u6" [] n = 7 -> "u7" [] n = 8 -> "u8"
      [] n = 9 -> "u9" [] n = 10 -> "u10" [] n = 11 -> "u11" [] OTHER -> "u12"

\* create_ycell: the live cell built from a cell dict; nh is the handle it gets,
\* uuid the number of identifiers generated so far.
create_ycell(value, nh, uuid) ==
    LET noId == "id" \notin DOMAIN value
        c1 == IF noId THEN DictPut(value, "id", Uuid(uuid + 1)) ELSE value
        c2 == DictPut(c1, "metadata", DictGet(c1, "metadata", "{}"))
        cell_type == c2["cell_type"]
        c3 == IF cell_type \in {"raw", "markdown"}
              THEN IF "attachments" \in DOMAIN c2 /\ c2["attachments"] = "{}"
                   THEN DictDel(c2, "attachments") ELSE c2
              ELSE IF cell_type = "code"
              THEN DictPut(DictPut(c2, "outputs", DictGet(c2, "outputs", <<>>)),
                           "execution_state", "idle")
              ELSE c2
    IN  [ycell |-> [h |-> nh,
                    outputs_kind |-> IF cell_type = "code" THEN "Array" ELSE "plain",
                    d |-> c3],
         uuid |-> IF noId THEN uuid + 1 ELSE uuid]

\* int(meta.get(key, 0))
MetaInt(meta, key) == IF key \in DOMAIN meta THEN meta[key].v ELSE 0

\* _cell_to_py: the plain view of a live cell under the notebook meta.
cell_to_py(ycell, meta) ==
    LET c0 == ycell.d
        c1 == DictDel(c0, "execution_state")
        c2 == cast_all_cell(c1, "float", "int")
        c3 == IF /\ "id" \in DOMAIN c2
                 /\ MetaInt(meta, "nbformat") = 4
                 /\ MetaInt(meta, "nbformat_minor") <= 4
              THEN DictDel(c2, "id") ELSE c2
        c4 == IF /\ "attachments" \in DOMAIN c3
                 /\ c3["cell_type"] \in {"raw", "markdown"}
                 /\ c3["attachments"] = "{}"
              THEN DictDel(c3, "attachments") ELSE c3
    IN  c4

\* A variant of the kind check that accepts every handle.
IsExpectedKind_Always(ycell, key) == TRUE

\* isinstance(old_ycell[key], _CELL_KEY_TYPE_MAP[key]): source is always a Text
\* and metadata always a Map (create_ycell builds them); outputs is an Array only
\* in a cell that create_ycell built as a code cell.
IsExpectedKind(ycell, key) ==
    IF key = "outputs" THEN ycell.outputs_kind = "Array" ELSE TRUE

\* The UTF-8 bytes of the cell sources of the model.
SourceBytes(source) ==
    CASE source = "" -> <<>>
      [] source = "a" -> <<97>>
      [] source = "b" -> <<98>>
      [] source = "ab" -> <<97, 98>>
      [] OTHER -> <<63>>

\* `old_text.clear(); old_text += value` (lines 481-484): the writes on the
\* Text of a cell source that holds the bytes old.
TextRefill(old, value) ==
    (IF old # <<>> THEN <<<<"delete", 0, Len(old)>>>> ELSE <<>>)
    \o (IF value # <<>> THEN <<<<"insert", 0, value>>>> ELSE <<>>)

\* The writes a granular update makes on the Text of the source of a live cell.
SourceUpdate(ycell, value) ==
    [h |-> ycell.h, old |-> SourceBytes(ycell.d["source"]),
     writes |-> TextRefill(SourceBytes(ycell.d["source"]), SourceBytes(value))]

\* The keys of the cells of the model, in one of the orders in which
\* _update_cell can iterate them.
KeyOrder ==
    <<"id", "cell_type", "source", "metadata", "outputs", "execution_count",
      "attachments", "new_key", "execution_state">>

\* An event target inside a cell: the cell Map itself or one nested handle.
Target(ycell, key) == <<ycell.h, IF key \in CELL_KEY_TYPE_MAP THEN key ELSE "map">>

\* _update_cell, the loop over shared_keys, with the keys still to visit.
\* r = [ok, y, w]: success so far, the live cell, the event targets written.
RECURSIVE UpdateShared(_, _, _, _)
\* A variant of the loop over shared_keys that patches stream outputs granularly.
UpdateShared_PatchesStream(keys, old_cell, new_cell, r) ==
    IF keys = <<>> THEN r
    ELSE LET key == Head(keys) IN
      IF key \notin (DOMAIN old_cell \cap DOMAIN new_cell)
         \/ ValEq(key, old_cell[key], new_cell[key])
      THEN UpdateShared(Tail(keys), old_cell, new_cell, r)
      ELSE LET value == new_cell[key] IN
        IF key \in CELL_KEY_TYPE_MAP /\ ~IsExpectedKind(r.y, key)
        THEN [r EXCEPT !.ok = FALSE]
        ELSE UpdateShared(Tail(keys), old_cell, new_cell,
                [r EXCEPT !.y.d = DictPut(@, key, value),
                          !.w = @ \cup {Target(r.y, key)},
                          !.tw = IF key = "source" THEN Append(@, SourceUpdate(r.y, value))
                                 ELSE @])

UpdateShared(keys, old_cell, new_cell, r) ==
    IF keys = <<>> THEN r
    ELSE LET key == Head(keys) IN
      IF key \notin (DOMAIN old_cell \cap DOMAIN new_cell)
         \/ ValEq(key, old_cell[key], new_cell[key])
      THEN UpdateShared(Tail(keys), old_cell, new_cell, r)
      ELSE LET value == new_cell[key] IN
        IF key = "outputs" /\ Truthy(value) /\ HasStream(value)
        THEN [r EXCEPT !.ok = FALSE]
        ELSE IF key \in CELL_KEY_TYPE_MAP /\ ~IsExpectedKind(r.y, key)
        THEN [r EXCEPT !.ok = FALSE]
        ELSE UpdateShared(Tail(keys), old_cell, new_cell,
                [r EXCEPT !.y.d = DictPut(@, key, value),
                          !.w = @ \cup {Target(r.y, key)},
                          !.tw = IF key = "source" THEN Append(@, SourceUpdate(r.y, value))
                                 ELSE @])

\* _update_cell, the loop over removed_keys.
RECURSIVE UpdateRemoved(_, _, _, _)
UpdateRemoved(keys, old_cell, new_cell, r) ==
    IF keys = <<>> THEN r
    ELSE LET key == Head(keys) IN
      IF key \in (DOMAIN old_cell \ DOMAIN new_cell)
      THEN UpdateRemoved(Tail(keys), old_cell, new_cell,
                [r EXCEPT !.y.d = DictDel(@, key), !.w = @ \cup {<<r.y.h, "map">>}])
      ELSE UpdateRemoved(Tail(keys), old_cell, new_cell, r)

\* A variant of the loop over added_keys that refuses every added key.
UpdateAdded_RefusesAll(keys, old_cell, new_cell, r) ==
    IF DOMAIN new_cell \ DOMAIN old_cell = {} THEN r ELSE [r EXCEPT !.ok = FALSE]

\* _update_cell, the loop over added_keys.
RECURSIVE UpdateAdded(_, _, _, _)
UpdateAdded(keys, old_cell, new_cell, r) ==
    IF keys = <<>> THEN r
    ELSE LET key == Head(keys) IN
      IF key \in (DOMAIN new_cell \ DOMAIN old_cell)
      THEN IF key \in CELL_KEY_TYPE_MAP
           THEN [r EXCEPT !.ok = FALSE]
           ELSE UpdateAdded(Tail(keys), old_cell, new_cell,
                    [r EXCEPT !.y.d = DictPut(@, key, new_cell[key]),
                              !.w = @ \cup {<<r.y.h, "map">>}])
      ELSE UpdateAdded(Tail(keys), old_cell, new_cell, r)

\* A variant of _update_cell that refuses every granular update.
update_cell_Refuses(old_cell, new_cell, old_ycell, order) ==
    [ok |-> FALSE, y |-> old_ycell, w |-> {}, tw |-> <<>>]

\* _update_cell, with the order in which this call iterates its key sets:
\* [ok |-> the returned bool, y |-> the live cell afterwards,
\* w |-> the event targets written, tw |-> the writes made on source Texts].
update_cell(old_cell, new_cell, old_ycell, order) ==
    LET r0 == [ok |-> TRUE, y |-> old_ycell, w |-> {}, tw |-> <<>>] IN
    IF CellEq(old_cell, new_cell) THEN r0
    ELSE LET r1 == UpdateShared(order, old_cell, new_cell, r0) IN
         IF ~r1.ok THEN r1
         ELSE UpdateAdded(order, old_cell, new_cell,
                          UpdateRemoved(order, old_cell, new_cell, r1))

\* `for key in shared_keys`, `for key in removed_keys`, `for key in added_keys`
\* (lines 460, 495, 498) iterate Python sets of strings: the order depends on the
\* string hashes and on the size of the set, and is any order.  A `return False`
\* writes nothing, so what a refused update has written is decided by the keys
\* that come before the first refusing key of the loop that refuses.
\* KeyOrders(old_cell, new_cell, old_ycell) holds one order for each such set of
\* keys: the chosen keys, then the refusing keys, then the other keys.  Every
\* order of the keys makes the writes of one of them; an update that is not
\* refused makes the same writes in every order, and KeyOrder stands for all.
KeyOrders(old_cell, new_cell, old_ycell) ==
    LET keys == {KeyOrder[i] : i \in 1..Len(KeyOrder)}
        r0 == [ok |-> TRUE, y |-> old_ycell, w |-> {}, tw |-> <<>>]
        shared(k) == UpdateShared(<<k>>, old_cell, new_cell, r0)
        added(k) == UpdateAdded(<<k>>, old_cell, new_cell, r0)
        inShared == \E k \in keys : ~shared(k).ok
        refusing == IF inShared THEN {k \in keys : ~shared(k).ok}
                    ELSE {k \in keys : ~added(k).ok}
        writable == IF inShared THEN {k \in keys : shared(k).ok /\ shared(k) # r0}
                    ELSE {k \in keys : added(k).ok /\ added(k) # r0}
    IN  IF CellEq(old_cell, new_cell) \/ refusing = {} THEN {KeyOrder}
        ELSE {SelectSeq(KeyOrder, LAMBDA k : k \in E)
                \o SelectSeq(KeyOrder, LAMBDA k : k \in refusing)
                \o SelectSeq(KeyOrder, LAMBDA k : k \notin E \cup refusing) :
              E \in SUBSET writable}

\* ------------------------------------------------------------------ substrate
\* The write log of the open pycrdt transaction: the operations on the cells
\* Array in order, the event targets written inside cells, the writes made on
\* the Texts of cell sources, the keys written in
\* the meta Map and in the state Map.
NoTxn == [open |-> FALSE, arr |-> <<>>, tg |-> {}, text |-> <<>>, meta |-> {}, state |-> {}]
OpenTxn == [NoTxn EXCEPT !.open = TRUE]

\* One observer callback: callback(topic, event).  first is the position, among
\* the callbacks of the API call, of the first callback delivered by the same
\* transaction: callbacks of one commit share it.
Callback(topic, txn, first) ==
    [topic |-> topic,
     first |-> first,
     arr |-> IF topic = "cells" THEN txn.arr ELSE <<>>,
     tg |-> IF topic = "cells" THEN txn.tg ELSE {},
     text |-> IF topic = "cells" THEN txn.text ELSE <<>>,
     keys |-> IF topic = "meta" THEN txn.meta
              ELSE IF topic = "state" THEN txn.state ELSE {}]

\* The callbacks a committed transaction delivers: one per root that changed
\* (state: observe; meta and cells: observe_deep), YNotebook.observe.
Callbacks(txn, first) ==
    (IF txn.state # {} THEN <<Callback("state", txn, first)>> ELSE <<>>)
    \o (IF txn.meta # {} THEN <<Callback("meta", txn, first)>> ELSE <<>>)
    \o (IF txn.arr # <<>> \/ txn.tg # {} THEN <<Callback("cells", txn, first)>> ELSE <<>>)

\* Leaving `with self._ydoc.transaction()`: the log is committed and observers run.
Commit(M) == [M EXCEPT !.calls = @ \o Callbacks(M.txn, Len(M.calls) + 1), !.txn = NoTxn]

\* A write outside any open transaction is a transaction of its own.
AutoCommit(M) == IF M.txn.open THEN M ELSE Commit(M)

SeqRemove(s, i) == [k \in 1..(Len(s) - 1) |-> IF k < i THEN s[k] ELSE s[k + 1]]
SeqInsert(s, i, x) ==
    [k \in 1..(Len(s) + 1) |-> IF k < i THEN s[k] ELSE IF k = i THEN x ELSE s[k - 1]]

\* ycell.get("id") / new_cell.get("id"): NoneId stands for Python's None.
NoneId == "<None>"
IdOf(d) == IF "id" \in DOMAIN d THEN d["id"] ELSE NoneId

\* The index (1-based) of the live cell with handle h, 0 when it is not in the array.
PosOf(ycells, h) ==
    IF \E p \in 1..Len(ycells) : ycells[p].h = h
    THEN CHOOSE p \in 1..Len(ycells) : ycells[p].h = h
    ELSE 0

\* self._ycells.pop(index) / del self._ycells[index], index 1-based here.
ArrayDelete(M, p) ==
    [M EXCEPT !.ycells = SeqRemove(@, p),
              !.txn.arr = Append(@, <<"delete", M.ycells[p].h>>)]

\* self._ycells.insert(index, self.create_ycell(new_cell)), index 1-based here.
ArrayInsertNew(M, p, new_cell) ==
    LET c == create_ycell(new_cell, M.nh, M.uuid) IN
    [M EXCEPT !.ycells = SeqInsert(@, p, c.ycell),
              !.uuid = c.uuid,
              !.nh = @ + 1,
              !.txn.arr = Append(@, <<"insert", M.nh>>)]

\* A variant of the truncation that cuts one cell too many: del self._ycells[n - 1:].
ArrayTruncate_OneTooMany(M, n) ==
    LET m == IF n > 0 THEN n - 1 ELSE 0
    IN  IF Len(M.ycells) < m THEN [M EXCEPT !.g.pc = "raised"]
        ELSE IF Len(M.ycells) = m THEN M
        ELSE [M EXCEPT !.ycells = SubSeq(@, 1, m),
                       !.txn.arr = @ \o [k \in 1..(Len(M.ycells) - m) |->
                                            <<"delete", M.ycells[m + k].h>>]]

\* del self._ycells[n:] (n 0-based: keep the first n cells); clear() is n = 0.
\* The Array removes the range that starts at n and has the length len - n: on
\* an array of fewer than n cells the length is negative, the call raises
\* OverflowError and removes nothing (the frame is marked as raised).
ArrayTruncate(M, n) ==
    IF Len(M.ycells) < n THEN [M EXCEPT !.g.pc = "raised"]
    ELSE IF Len(M.ycells) = n THEN M
    ELSE [M EXCEPT !.ycells = SubSeq(@, 1, n),
                   !.txn.arr = @ \o [k \in 1..(Len(M.ycells) - n) |->
                                        <<"delete", M.ycells[n + k].h>>]]

\* ystdin.add_stdin(cell, prompt, password) on the live cell at index p
\* (ystdin.py lines 26-39): uuid4() gives the id, the stdin Map is appended to
\* the outputs Array of the cell, and the id is returned.  The input Text of
\* the new Map is empty and reads as "".  A cell without outputs has None for
\* cell.get("outputs"), and the append raises AttributeError after uuid4() has
\* run; outputs held as a plain list are read as a copy, which the append
\* leaves behind.
add_stdin(M, p, prompt, password) ==
    LET ycell == M.ycells[p]
        idx == Uuid(M.uuid + 1)
        stdin == [output_type |-> "stdin", id |-> idx, submitted |-> FALSE,
                  password |-> password, prompt |-> prompt, input |-> ""]
        M1 == [M EXCEPT !.uuid = @ + 1]
    IN  IF "outputs" \notin DOMAIN ycell.d
        THEN [M |-> M1, returned |-> NoneId]
        ELSE IF ycell.outputs_kind # "Array"
        THEN [M |-> M1, returned |-> idx]
        ELSE [M |-> [M1 EXCEPT !.ycells =
                            [k \in 1..Len(M.ycells) |->
                                IF k = p
                                THEN [ycell EXCEPT !.d = DictPut(@, "outputs",
                                                         Append(ycell.d["outputs"], stdin))]
                                ELSE M.ycells[k]],
                                !.txn.tg = @ \cup {Target(ycell, "outputs")}],
              returned |-> idx]

\* ------------------------------------------------------------------ YNotebook._set
\* The generator YNotebook._set as a machine M: the document (ycells, ymeta,
\* ystate), the uuid and handle counters, the open transaction, the callbacks
\* delivered, and the generator's frame g.  g.pc names the yield the generator
\* is suspended at: Y1 (line 316), Y2 (327), Y3 (350), Y4 (363), Y5 (374).

\* A variant of the default cell with empty metadata.
DefaultCell_Untrusted ==
    [cell_type |-> "code", execution_count |-> None, metadata |-> "{}",
     outputs |-> <<>>, source |-> ""]

\* The default cell list of an empty snapshot (lines 301-311).
DefaultCell ==
    [cell_type |-> "code", execution_count |-> None, metadata |-> "{trusted}",
     outputs |-> <<>>, source |-> ""]

\* The frame before the first next(): nothing has run yet.
NewFrame(value) ==
    [pc |-> "start", value |-> value, nb |-> <<>>, meta |-> <<>>, new_cells |-> <<>>,
     by_id |-> <<>>, it |-> 0, iter_len |-> 0, ych |-> 0, j |-> 0,
     new_cell_list |-> <<>>, retained |-> {}, refused |-> {}, index |-> 0, seen |-> {},
     cur |-> 0, scan_end |-> 0]

\* A variant of the end of _set that deletes every key of the state map.
Finish_DropsAllState(M) ==
    LET g == M.g
        M1 == ArrayTruncate(M, Len(g.new_cell_list))
        dropped == DOMAIN M1.ystate
        M2 == [M1 EXCEPT !.ystate = [k \in DOMAIN M1.ystate \ dropped |-> M1.ystate[k]],
                         !.txn.state = @ \cup dropped]
        nbformat_major == DictGet(g.nb, "nbformat", PyInt(NBFORMAT_MAJOR_VERSION))
        nbformat_minor == DictGet(g.nb, "nbformat_minor", PyInt(NBFORMAT_MINOR_VERSION))
        M3 == IF NumEq(DictGet(g.meta, "nbformat", None), nbformat_major) THEN M2
              ELSE [M2 EXCEPT !.ymeta = DictPut(@, "nbformat", nbformat_major),
                              !.txn.meta = @ \cup {"nbformat"}]
        M4 == IF NumEq(DictGet(g.meta, "nbformat_minor", None), nbformat_minor) THEN M3
              ELSE [M3 EXCEPT !.ymeta = DictPut(@, "nbformat_minor", nbformat_minor),
                              !.txn.meta = @ \cup {"nbformat_minor"}]
        metadata == DictGet(g.nb, "metadata", <<>>)
        same == "metadata" \in DOMAIN g.meta /\ MetadataEq(metadata, g.meta["metadata"])
        md1 == IF "language_info" \in DOMAIN metadata THEN metadata
               ELSE DictPut(metadata, "language_info", "{name:''}")
        md2 == IF "kernelspec" \in DOMAIN md1 THEN md1
               ELSE DictPut(md1, "kernelspec", "{name:'',display_name:''}")
        M5 == IF same THEN M4
              ELSE [M4 EXCEPT !.ymeta = DictPut(@, "metadata", md2),
                              !.txn.meta = @ \cup {"metadata"}]
    IN  IF M1.g.pc = "raised" THEN Commit(M1) ELSE [Commit(M5) EXCEPT !.g.pc = "done"]

\* Lines 386-409: truncate the tail, strip the state map, write the meta map
\* where it differs, leave the transaction.  When the truncation raises, the
\* exception leaves the with block and the transaction commits as it stands.
Finish(M) ==
    LET g == M.g
        M1 == ArrayTruncate(M, Len(g.new_cell_list))
        dropped == DOMAIN M1.ystate \ KEPT_STATE_KEYS
        M2 == [M1 EXCEPT !.ystate = [k \in DOMAIN M1.ystate \ dropped |-> M1.ystate[k]],
                         !.txn.state = @ \cup dropped]
        nbformat_major == DictGet(g.nb, "nbformat", PyInt(NBFORMAT_MAJOR_VERSION))
        nbformat_minor == DictGet(g.nb, "nbformat_minor", PyInt(NBFORMAT_MINOR_VERSION))
        M3 == IF NumEq(DictGet(g.meta, "nbformat", None), nbformat_major) THEN M2
              ELSE [M2 EXCEPT !.ymeta = DictPut(@, "nbformat", nbformat_major),
                              !.txn.meta = @ \cup {"nbformat"}]
        M4 == IF NumEq(DictGet(g.meta, "nbformat_minor", None), nbformat_minor) THEN M3
              ELSE [M3 EXCEPT !.ymeta = DictPut(@, "nbformat_minor", nbformat_minor),
                              !.txn.meta = @ \cup {"nbformat_minor"}]
        metadata == DictGet(g.nb, "metadata", <<>>)
        same == "metadata" \in DOMAIN g.meta /\ MetadataEq(metadata, g.meta["metadata"])
        md1 == IF "language_info" \in DOMAIN metadata THEN metadata
               ELSE DictPut(metadata, "language_info", "{name:''}")
        md2 == IF "kernelspec" \in DOMAIN md1 THEN md1
               ELSE DictPut(md1, "kernelspec", "{name:'',display_name:''}")
        M5 == IF same THEN M4
              ELSE [M4 EXCEPT !.ymeta = DictPut(@, "metadata", md2),
                              !.txn.meta = @ \cup {"metadata"}]
    IN  IF M1.g.pc = "raised" THEN Commit(M1) ELSE [Commit(M5) EXCEPT !.g.pc = "done"]

\* An exception leaves the with block: the transaction is committed as it stands.
Raise(M) == [Commit(M) EXCEPT !.g.pc = "raised"]

\* `continue` in the positional loop (line 362): the next desired cell, or the end.
NextPosition(M) ==
    IF M.g.index < Len(M.g.new_cell_list)
    THEN [M EXCEPT !.g.index = @ + 1, !.g.pc = "Y4"]
    ELSE Finish(M)

\* Line 362: the positional loop starts (new_cell_list is never empty).
EnterPosition(M) == [M EXCEPT !.g.index = 1, !.g.pc = "Y4"]

\* Lines 342-350: after the retention loop.
AfterRetain(M) ==
    IF M.g.retained = {}
    THEN EnterPosition(ArrayTruncate(M, 0))
    ELSE [M EXCEPT !.g.index = 1, !.g.seen = {}, !.g.pc = "Y3"]

\* Lines 321-327: the transaction opens and the retention loop starts.
EnterRetain(M) == [M EXCEPT !.txn = OpenTxn, !.g.j = 1, !.g.pc = "Y2"]

\* Lines 295-316: the first next() of the generator.
StepStart(M) ==
    LET value == M.g.value
        nb_without_cells == [k \in DOMAIN value \ {"cells"} |-> value[k]]
        nb == cast_all_nb(nb_without_cells, "int", "float")
        new_cells == IF value["cells"] # <<>> THEN value["cells"]
                     ELSE <<DictPut(DefaultCell, "id", Uuid(M.uuid + 1))>>
        M1 == [M EXCEPT !.g.nb = nb, !.g.meta = M.ymeta, !.g.new_cells = new_cells,
                        !.uuid = IF value["cells"] # <<>> THEN @ ELSE @ + 1,
                        !.g.by_id = <<>>, !.g.iter_len = Len(M.ycells)]
    IN  IF Len(M.ycells) > 0
        THEN [M1 EXCEPT !.g.it = 1, !.g.ych = M.ycells[1].h, !.g.pc = "Y1"]
        ELSE EnterRetain(M1)

\* Lines 317-319, then the next iteration of the loop over self._ycells.
StepY1(M) ==
    LET g == M.g
        p == PosOf(M.ycells, g.ych)
        cell_id == IF p = 0 THEN NoneId ELSE IdOf(M.ycells[p].d)
        by_id == IF cell_id # NoneId /\ cell_id \notin DOMAIN g.by_id
                 THEN DictPut(g.by_id, cell_id, g.ych) ELSE g.by_id
        M1 == [M EXCEPT !.g.by_id = by_id]
    IN  IF g.it < g.iter_len /\ g.it < Len(M.ycells)
        THEN [M1 EXCEPT !.g.it = @ + 1, !.g.ych = M.ycells[g.it + 1].h]
        ELSE EnterRetain(M1)

\* A variant of the retention loop that retains a cell whose update was refused.
StepY2_RetainsRefused(M) ==
    LET g == M.g
        new_cell == g.new_cells[g.j]
        cell_id == IdOf(new_cell)
        matched == cell_id # NoneId /\ cell_id # "" /\ cell_id \in DOMAIN g.by_id
        p == IF matched THEN PosOf(M.ycells, g.by_id[cell_id]) ELSE 0
        upd == update_cell(cell_to_py(M.ycells[p], g.meta), new_cell, M.ycells[p], M.order)
        M1 == IF matched /\ p # 0
              THEN [M EXCEPT !.ycells[p] = upd.y,
                             !.txn.tg = @ \cup upd.w,
                             !.txn.text = @ \o upd.tw,
                             !.g.retained = @ \cup {cell_id},
                             !.g.refused = IF upd.ok THEN @
                                           ELSE @ \cup {[j |-> g.j, h |-> M.ycells[p].h]}]
              ELSE M
        M2 == [M1 EXCEPT !.g.new_cell_list = Append(@, new_cell)]
    IN  IF g.j < Len(g.new_cells)
        THEN [M2 EXCEPT !.g.j = @ + 1]
        ELSE AfterRetain(M2)

\* A variant of the retention loop that correlates a desired cell without id
\* with the first live cell of equal content.
StepY2_MatchesContent(M) ==
    LET g == M.g
        given == g.new_cells[g.j]
        same == {k \in 1..Len(M.ycells) :
                    /\ IdOf(M.ycells[k].d) \in DOMAIN g.by_id
                    /\ CellEq(DictDel(cell_to_py(M.ycells[k], g.meta), "id"), given)}
        first == CHOOSE k \in same : \A i \in same : k <= i
        new_cell == IF IdOf(given) = NoneId /\ same # {}
                    THEN DictPut(given, "id", IdOf(M.ycells[first].d)) ELSE given
        cell_id == IdOf(new_cell)
        matched == cell_id # NoneId /\ cell_id # "" /\ cell_id \in DOMAIN g.by_id
        p == IF matched THEN PosOf(M.ycells, g.by_id[cell_id]) ELSE 0
        upd == update_cell(cell_to_py(M.ycells[p], g.meta), new_cell, M.ycells[p], M.order)
        M1 == IF matched /\ p # 0
              THEN [M EXCEPT !.ycells[p] = upd.y,
                             !.txn.tg = @ \cup upd.w,
                             !.txn.text = @ \o upd.tw,
                             !.g.retained = IF upd.ok THEN @ \cup {cell_id} ELSE @,
                             !.g.refused = IF upd.ok THEN @
                                           ELSE @ \cup {[j |-> g.j, h |-> M.ycells[p].h]}]
              ELSE M
        M2 == [M1 EXCEPT !.g.new_cell_list = Append(@, new_cell)]
    IN  IF g.j < Len(g.new_cells)
        THEN [M2 EXCEPT !.g.j = @ + 1]
        ELSE AfterRetain(M2)

\* Lines 328-340, then the next iteration of the retention loop.
StepY2(M) ==
    LET g == M.g
        new_cell == g.new_cells[g.j]
        cell_id == IdOf(new_cell)
        matched == cell_id # NoneId /\ cell_id # "" /\ cell_id \in DOMAIN g.by_id
        p == IF matched THEN PosOf(M.ycells, g.by_id[cell_id]) ELSE 0
        upd == update_cell(cell_to_py(M.ycells[p], g.meta), new_cell, M.ycells[p], M.order)
        M1 == IF matched /\ p # 0
              THEN [M EXCEPT !.ycells[p] = upd.y,
                             !.txn.tg = @ \cup upd.w,
                             !.txn.text = @ \o upd.tw,
                             !.g.retained = IF upd.ok THEN @ \cup {cell_id} ELSE @,
                             !.g.refused = IF upd.ok THEN @
                                           ELSE @ \cup {[j |-> g.j, h |-> M.ycells[p].h]}]
              ELSE M
        M2 == [M1 EXCEPT !.g.new_cell_list = Append(@, new_cell)]
    IN  IF g.j < Len(g.new_cells)
        THEN [M2 EXCEPT !.g.j = @ + 1]
        ELSE AfterRetain(M2)

\* A variant of the deletion pass that keeps every cell with a retained id.
StepY3_KeepsDuplicates(M) ==
    LET g == M.g IN
    IF g.index - 1 = Len(M.ycells)
    THEN EnterPosition(M)
    ELSE LET cell_id == IdOf(M.ycells[g.index].d) IN
         IF cell_id = NoneId \/ cell_id \notin g.retained
         THEN ArrayDelete(M, g.index)
         ELSE [M EXCEPT !.g.seen = @ \cup {cell_id}, !.g.index = @ + 1]

\* A variant of the deletion pass that never advances the scan index: a
\* retained cell is noted as seen, and forgotten again at the next iteration.
StepY3_NeverAdvances(M) ==
    LET g == M.g IN
    IF g.index - 1 = Len(M.ycells)
    THEN EnterPosition(M)
    ELSE LET cell_id == IdOf(M.ycells[g.index].d) IN
         IF cell_id = NoneId \/ cell_id \notin g.retained
         THEN ArrayDelete(M, g.index)
         ELSE IF cell_id \in g.seen
         THEN [M EXCEPT !.g.seen = @ \ {cell_id}]
         ELSE [M EXCEPT !.g.seen = @ \cup {cell_id}]

\* Lines 351-359: one iteration of the deletion pass.
StepY3(M) ==
    LET g == M.g IN
    IF g.index - 1 = Len(M.ycells)
    THEN EnterPosition(M)
    ELSE LET cell_id == IdOf(M.ycells[g.index].d) IN
         IF cell_id = NoneId \/ cell_id \notin g.retained \/ cell_id \in g.seen
         THEN ArrayDelete(M, g.index)
         ELSE [M EXCEPT !.g.seen = @ \cup {cell_id}, !.g.index = @ + 1]

\* A variant of the positional step whose forward scan starts one cell too far.
StepY4_ScansTooFar(M) ==
    LET g == M.g
        new_cell == g.new_cell_list[g.index]
        new_id == IdOf(new_cell)
    IN  IF Len(M.ycells) > g.index - 1 /\ IdOf(M.ycells[g.index].d) = new_id
        THEN NextPosition(M)
        ELSE IF new_id # NoneId /\ new_id \in g.retained
        THEN IF g.index + 2 <= Len(M.ycells)
             THEN [M EXCEPT !.g.cur = g.index + 2, !.g.scan_end = Len(M.ycells),
                            !.g.pc = "Y5"]
             ELSE NextPosition(M)
        ELSE IF g.index - 1 > Len(M.ycells)
        THEN Raise([M EXCEPT !.uuid = create_ycell(new_cell, M.nh, M.uuid).uuid])
        ELSE NextPosition(ArrayInsertNew(M, g.index, new_cell))

\* A variant of the positional step without the test of line 367: a retained
\* cell that is already at its index is deleted and created again.
StepY4_RecreatesInPlace(M) ==
    LET g == M.g
        new_cell == g.new_cell_list[g.index]
        new_id == IdOf(new_cell)
    IN  IF Len(M.ycells) > g.index - 1 /\ IdOf(M.ycells[g.index].d) = new_id
        THEN NextPosition(ArrayInsertNew(ArrayDelete(M, g.index), g.index, new_cell))
        ELSE IF new_id # NoneId /\ new_id \in g.retained
        THEN IF g.index + 1 <= Len(M.ycells)
             THEN [M EXCEPT !.g.cur = g.index + 1, !.g.scan_end = Len(M.ycells),
                            !.g.pc = "Y5"]
             ELSE NextPosition(M)
        ELSE IF g.index - 1 > Len(M.ycells)
        THEN Raise([M EXCEPT !.uuid = create_ycell(new_cell, M.nh, M.uuid).uuid])
        ELSE NextPosition(ArrayInsertNew(M, g.index, new_cell))

\* Lines 364-384: one desired cell of the positional pass, up to the first
\* yield of the forward scan.
StepY4(M) ==
    LET g == M.g
        new_cell == g.new_cell_list[g.index]
        new_id == IdOf(new_cell)
    IN  IF Len(M.ycells) > g.index - 1 /\ IdOf(M.ycells[g.index].d) = new_id
        THEN NextPosition(M)
        ELSE IF new_id # NoneId /\ new_id \in g.retained
        THEN IF g.index + 1 <= Len(M.ycells)
             THEN [M EXCEPT !.g.cur = g.index + 1, !.g.scan_end = Len(M.ycells),
                            !.g.pc = "Y5"]
             ELSE NextPosition(M)
        ELSE IF g.index - 1 > Len(M.ycells)
        THEN Raise([M EXCEPT !.uuid = create_ycell(new_cell, M.nh, M.uuid).uuid])
        ELSE NextPosition(ArrayInsertNew(M, g.index, new_cell))

\* A variant of the forward scan that re-creates the cell where it was found.
StepY5_InsertWhereFound(M) ==
    LET g == M.g
        new_cell == g.new_cell_list[g.index]
    IN  IF g.cur <= Len(M.ycells) /\ IdOf(M.ycells[g.cur].d) = IdOf(new_cell)
        THEN NextPosition(ArrayInsertNew(ArrayDelete(M, g.cur), g.cur, new_cell))
        ELSE IF g.cur < g.scan_end
        THEN [M EXCEPT !.g.cur = @ + 1]
        ELSE NextPosition(M)

\* A variant of the forward scan that suspends after the deletion of the cell
\* it found: the cell is not inserted before the next checkpoint.
StepY5_DeletesOnly(M) ==
    LET g == M.g
        new_cell == g.new_cell_list[g.index]
    IN  IF g.cur <= Len(M.ycells) /\ IdOf(M.ycells[g.cur].d) = IdOf(new_cell)
        THEN NextPosition(ArrayDelete(M, g.cur))
        ELSE IF g.cur < g.scan_end
        THEN [M EXCEPT !.g.cur = @ + 1]
        ELSE NextPosition(M)

\* Lines 375-381: one iteration of the forward scan.
StepY5(M) ==
    LET g == M.g
        new_cell == g.new_cell_list[g.index]
    IN  IF g.cur <= Len(M.ycells) /\ IdOf(M.ycells[g.cur].d) = IdOf(new_cell)
        THEN NextPosition(ArrayInsertNew(ArrayDelete(M, g.cur), g.index, new_cell))
        ELSE IF g.cur < g.scan_end
        THEN [M EXCEPT !.g.cur = @ + 1]
        ELSE NextPosition(M)

\* next() on the generator: run from the current yield to the next one.
GenStep(M) ==
    CASE M.g.pc = "start" -> StepStart(M)
      [] M.g.pc = "Y1" -> StepY1(M)
      [] M.g.pc = "Y2" -> StepY2(M)
      [] M.g.pc = "Y3" -> StepY3(M)
      [] M.g.pc = "Y4" -> StepY4(M)
      [] M.g.pc = "Y5" -> StepY5(M)
      [] OTHER -> M

\* The orders in which the next step of the generator iterates the key sets of
\* _update_cell: those of the update the step makes, when it makes one.
StepOrders(M) ==
    IF M.g.pc # "Y2" THEN {KeyOrder}
    ELSE LET g == M.g
             new_cell == g.new_cells[g.j]
             cell_id == IdOf(new_cell)
             matched == cell_id # NoneId /\ cell_id # "" /\ cell_id \in DOMAIN g.by_id
             p == IF matched THEN PosOf(M.ycells, g.by_id[cell_id]) ELSE 0
         IN  IF matched /\ p # 0
             THEN KeyOrders(cell_to_py(M.ycells[p], g.meta), new_cell, M.ycells[p])
             ELSE {KeyOrder}

\* next() on the generator under every order of the key sets.
GenSteps(M) ==
    {[GenStep([M EXCEPT !.order = o]) EXCEPT !.order = KeyOrder] : o \in StepOrders(M)}

\* YNotebook.set: `for _ in self._set(value): pass`; the documents the call
\* can end with.
RECURSIVE RunSet(_)
RunSet(M) ==
    IF M.g.pc \in {"done", "raised"} THEN {M} ELSE UNION {RunSet(N) : N \in GenSteps(M)}

\* ------------------------------------------------------------------ YNotebook._get
\* The generator YNotebook._get as a machine: the same record M, with the frame
\* in M.q.  q.pc names the yield the generator is suspended at: G1 (line 232).

NoVal == <<>>

NewGetFrame(deduplicate) ==
    [pc |-> "start", deduplicate |-> deduplicate, meta |-> <<>>, i |-> 0, n |-> 0,
     cells |-> <<>>, seen_ids |-> <<>>, val |-> NoVal]

\* Lines 272-277: the value the generator yields last.
GetResult(q) ==
    [cells |-> q.cells,
     metadata |-> DictGet(q.meta, "metadata", <<>>),
     nbformat |-> PyInt(MetaInt(q.meta, "nbformat")),
     nbformat_minor |-> PyInt(MetaInt(q.meta, "nbformat_minor"))]

\* Lines 226-232: the first next().
GetStart(M) ==
    LET meta == cast_all_nb(M.ymeta, "float", "int")
        M1 == [M EXCEPT !.q.meta = meta, !.q.n = Len(M.ycells)]
    IN  IF Len(M.ycells) > 0
        THEN [M1 EXCEPT !.q.i = 1, !.q.pc = "G1"]
        ELSE [M1 EXCEPT !.q.val = GetResult(M1.q), !.q.pc = "done"]

\* The names of the fields in which two cells differ (lines 250-255):
\* `cell.get(key) != prev_cell.get(key)`, so that a key one cell lacks and the
\* other holds as None is no difference.  Only the keys of NumKeys hold None.
DifferingFields(cell, prev_cell) ==
    {key \in DOMAIN cell \cup DOMAIN prev_cell :
        IF key \in DOMAIN cell /\ key \in DOMAIN prev_cell
        THEN ~ValEq(key, cell[key], prev_cell[key])
        ELSE LET held == IF key \in DOMAIN cell THEN cell[key] ELSE prev_cell[key]
             IN  ~(key \in NumKeys /\ held = None)}

\* A variant of the read loop that returns the new id without writing it to the
\* live cell.
GetStepG1_ReturnsOnly(M) ==
    LET q == M.q
        ycell == M.ycells[q.i]
        cell == cell_to_py(ycell, q.meta)
        cell_id == IdOf(cell)
        dup == q.deduplicate /\ cell_id # NoneId /\ cell_id # ""
               /\ cell_id \in DOMAIN q.seen_ids
        exact == dup /\ CellEq(cell, q.seen_ids[cell_id])
        new_id == Uuid(M.uuid + 1)
        renamed == DictPut(cell, "id", new_id)
        M1 == IF exact THEN M
              ELSE IF dup
              THEN AutoCommit(
                     [M EXCEPT !.uuid = @ + 1,
                               !.warnings = Append(@, [old_id |-> cell_id, new_id |-> new_id,
                                     fields |-> DifferingFields(renamed, q.seen_ids[cell_id])]),
                               !.q.seen_ids = DictPut(@, new_id, renamed),
                               !.q.cells = Append(@, renamed)])
              ELSE [M EXCEPT !.q.seen_ids =
                                IF q.deduplicate /\ cell_id # NoneId /\ cell_id # ""
                                THEN DictPut(@, cell_id, cell) ELSE @,
                             !.q.cells = Append(@, cell)]
    IN  IF q.i < q.n
        THEN [M1 EXCEPT !.q.i = @ + 1]
        ELSE [M1 EXCEPT !.q.val = GetResult(M1.q), !.q.pc = "done"]

\* Lines 233-270: one live cell, then the next iteration or the final value.
GetStepG1(M) ==
    LET q == M.q
        ycell == M.ycells[q.i]
        cell == cell_to_py(ycell, q.meta)
        cell_id == IdOf(cell)
        dup == q.deduplicate /\ cell_id # NoneId /\ cell_id # ""
               /\ cell_id \in DOMAIN q.seen_ids
        exact == dup /\ CellEq(cell, q.seen_ids[cell_id])
        new_id == Uuid(M.uuid + 1)
        renamed == DictPut(cell, "id", new_id)
        M1 == IF exact THEN M
              ELSE IF dup
              THEN AutoCommit(
                     [M EXCEPT !.ycells[q.i].d = DictPut(@, "id", new_id),
                               !.uuid = @ + 1,
                               !.txn.tg = @ \cup {<<ycell.h, "map">>},
                               !.warnings = Append(@, [old_id |-> cell_id, new_id |-> new_id,
                                     fields |-> DifferingFields(renamed, q.seen_ids[cell_id])]),
                               !.q.seen_ids = DictPut(@, new_id, renamed),
                               !.q.cells = Append(@, renamed)])
              ELSE [M EXCEPT !.q.seen_ids =
                                IF q.deduplicate /\ cell_id # NoneId /\ cell_id # ""
                                THEN DictPut(@, cell_id, cell) ELSE @,
                             !.q.cells = Append(@, cell)]
    IN  IF q.i < q.n
        THEN [M1 EXCEPT !.q.i = @ + 1]
        ELSE [M1 EXCEPT !.q.val = GetResult(M1.q), !.q.pc = "done"]

GetStep(M) ==
    CASE M.q.pc = "start" -> GetStart(M)
      [] M.q.pc = "G1" -> GetStepG1(M)
      [] OTHER -> M

\* YNotebook.get: `for val in self._get(deduplicate): pass`.
RECURSIVE RunGet(_)
RunGet(M) == IF M.q.pc = "done" THEN M ELSE RunGet(GetStep(M))

\* ------------------------------------------------------------------ text
\* A Python str is a sequence of code points, a bytes object a sequence of
\* bytes; the pycrdt Text holds UTF-8 and is indexed in bytes.
SIMILARITY_THREESHOLD_TENTHS == 6

\* What str.encode("utf-8") gives instead of bytes when it raises
\* UnicodeEncodeError, and bytes.decode("utf-8") when it raises
\* UnicodeDecodeError.
UnicodeEncodeError == <<-1>>
UnicodeDecodeError == <<-2>>

\* A code point of the surrogate range U+D800..U+DFFF: a str can hold it,
\* UTF-8 cannot encode it.
IsSurrogate(cp) == cp >= 55296 /\ cp <= 57343

\* str.encode("utf-8") of one code point: one to four bytes.
EncodeChar(cp) ==
    IF cp < 128 THEN <<cp>>
    ELSE IF cp < 2048 THEN <<192 + (cp \div 64), 128 + (cp % 64)>>
    ELSE IF IsSurrogate(cp) THEN UnicodeEncodeError
    ELSE IF cp < 65536
    THEN <<224 + (cp \div 4096), 128 + ((cp \div 64) % 64), 128 + (cp % 64)>>
    ELSE <<240 + (cp \div 262144), 128 + ((cp \div 4096) % 64),
           128 + ((cp \div 64) % 64), 128 + (cp % 64)>>

RECURSIVE EncodeFrom(_)
EncodeFrom(str) ==
    IF str = <<>> THEN <<>> ELSE EncodeChar(Head(str)) \o EncodeFrom(Tail(str))

\* str.encode("utf-8"): the bytes of the code points in order; the call raises
\* when the str holds a surrogate.
Encode(str) ==
    IF \E n \in 1..Len(str) : IsSurrogate(str[n]) THEN UnicodeEncodeError
    ELSE EncodeFrom(str)

Encodable(str) == Encode(str) # UnicodeEncodeError

\* _is_utf8_continuation_byte: (byte & 0xC0) == 0x80.
is_utf8_continuation_byte(byte) == byte \div 64 = 2

\* The number of bytes the character led by this byte takes, 0 for a byte that
\* leads none: 0x80..0xC1 (continuation bytes, overlong leads) and 0xF5..0xFF.
CharLen(lead) ==
    IF lead < 128 THEN 1
    ELSE IF lead >= 194 /\ lead <= 223 THEN 2
    ELSE IF lead >= 224 /\ lead <= 239 THEN 3
    ELSE IF lead >= 240 /\ lead <= 244 THEN 4
    ELSE 0

\* The second byte the decoder accepts after a lead byte: a continuation byte,
\* in the range that leaves out the overlong forms (after 0xE0, 0xF0), the
\* surrogates (after 0xED) and the code points above U+10FFFF (after 0xF4).
SecondByteOk(lead, byte) ==
    CASE lead = 224 -> byte >= 160 /\ byte <= 191
      [] lead = 237 -> byte >= 128 /\ byte <= 159
      [] lead = 240 -> byte >= 144 /\ byte <= 191
      [] lead = 244 -> byte >= 128 /\ byte <= 143
      [] OTHER -> is_utf8_continuation_byte(byte)

\* bytes.decode("utf-8") succeeds.
RECURSIVE Decodable(_)
Decodable(data) ==
    IF data = <<>> THEN TRUE
    ELSE LET n == CharLen(data[1]) IN
         /\ n > 0 /\ n <= Len(data)
         /\ n >= 2 => SecondByteOk(data[1], data[2])
         /\ \A k \in 3..n : is_utf8_continuation_byte(data[k])
         /\ Decodable(SubSeq(data, n + 1, Len(data)))

\* The code points of decodable bytes, character by character.
RECURSIVE DecodeFrom(_)
DecodeFrom(data) ==
    IF data = <<>> THEN <<>>
    ELSE LET n == CharLen(data[1])
             cp == IF n = 1 THEN data[1]
                   ELSE IF n = 2 THEN (data[1] - 192) * 64 + (data[2] - 128)
                   ELSE IF n = 3
                   THEN (data[1] - 224) * 4096 + (data[2] - 128) * 64 + (data[3] - 128)
                   ELSE (data[1] - 240) * 262144 + (data[2] - 128) * 4096
                        + (data[3] - 128) * 64 + (data[4] - 128)
         IN  <<cp>> \o DecodeFrom(SubSeq(data, n + 1, Len(data)))

\* bytes.decode("utf-8"): the call raises on bytes that are not UTF-8.
Decode(data) == IF Decodable(data) THEN DecodeFrom(data) ELSE UnicodeDecodeError

\* data[i:j] with Python's 0-based half-open indices.
Slice(data, i, j) == SubSeq(data, i + 1, j)

\* _fix_byte_range_to_char_boundary (lines 164-181).
RECURSIVE FixStart(_, _)
\* A variant that leaves the start index where the opcode put it.
FixStart_Keeps(data, start) == start

FixStart(data, start) ==
    IF start > 0 /\ start < Len(data) /\ is_utf8_continuation_byte(data[start + 1])
    THEN FixStart(data, start - 1) ELSE start

RECURSIVE FixEnd(_, _)
\* A variant that leaves the end index where the opcode put it.
FixEnd_Keeps(data, end) == end
FixEnd(data, end) ==
    IF end < Len(data) /\ is_utf8_continuation_byte(data[end + 1])
    THEN FixEnd(data, end + 1) ELSE end

fix_byte_range_to_char_boundary(data, start, end) ==
    <<FixStart(data, start), FixEnd(data, end)>>

\* SequenceMatcher.__chain_b with autojunk, the default (line 81 passes a and b
\* only): when b has 200 elements or more, an element that occurs more than
\* len(b) // 100 + 1 times is popular and leaves the index b2j.
bpopular(b) ==
    IF Len(b) < 200 THEN {}
    ELSE {elt \in {b[j] : j \in 1..Len(b)} :
             Cardinality({j \in 1..Len(b) : b[j] = elt}) > Len(b) \div 100 + 1}

\* The length of the common run of a[i:ahi] and b[j:bhi] that holds no
\* element of the set popular.
RECURSIVE RunLength(_, _, _, _, _, _, _)
RunLength(a, b, i, j, ahi, bhi, popular) ==
    IF i < ahi /\ j < bhi /\ a[i + 1] = b[j + 1] /\ b[j + 1] \notin popular
    THEN 1 + RunLength(a, b, i + 1, j + 1, ahi, bhi, popular) ELSE 0

\* The length of the common run that ends before a[i], b[j] and starts at
\* a[alo], b[blo] at the earliest.
RECURSIVE RunLengthBack(_, _, _, _, _, _)
RunLengthBack(a, b, i, j, alo, blo) ==
    IF i > alo /\ j > blo /\ a[i] = b[j]
    THEN 1 + RunLengthBack(a, b, i - 1, j - 1, alo, blo) ELSE 0

\* find_longest_match, the two loops that extend the block found by the
\* matching elements next to it; no element is junk.
ExtendMatch(a, b, alo, ahi, blo, bhi, m) ==
    LET before == RunLengthBack(a, b, m[1], m[2], alo, blo)
        after == RunLength(a, b, m[1] + m[3], m[2] + m[3], ahi, bhi, {})
    IN  <<m[1] - before, m[2] - before, m[3] + before + after>>

\* The blocks a[i:i+k] == b[j:j+k] of indexed elements inside a[alo:ahi],
\* b[blo:bhi], one for every pair of equal indexed elements, as long as the
\* run of indexed elements that starts there.
CommonBlocks(a, b, alo, ahi, blo, bhi, popular) ==
    {<<m[1], m[2], RunLength(a, b, m[1], m[2], ahi, bhi, popular)>> :
        m \in {n \in (alo..(ahi - 1)) \X (blo..(bhi - 1)) :
                  a[n[1] + 1] = b[n[2] + 1] /\ b[n[2] + 1] \notin popular}}

\* The longest of the blocks; of the longest ones the one that starts earliest
\* in a, and of those the one that starts earliest in b; none when there is no
\* block.
LongestBlock(blocks, none) ==
    IF blocks = {} THEN none
    ELSE CHOOSE m \in blocks :
            \A n \in blocks :
               \/ n[3] < m[3]
               \/ n[3] = m[3] /\ (m[1] < n[1] \/ (m[1] = n[1] /\ m[2] <= n[2]))

\* difflib.SequenceMatcher.find_longest_match, no isjunk function given: the
\* longest block of indexed elements, then extended at both ends by the
\* matching elements next to it, popular ones included.
find_longest_match(a, b, alo, ahi, blo, bhi) ==
    ExtendMatch(a, b, alo, ahi, blo, bhi,
                LongestBlock(CommonBlocks(a, b, alo, ahi, blo, bhi, bpopular(b)),
                             <<alo, blo, 0>>))

\* get_matching_blocks: the recursion over the pieces left and right of the
\* longest match m, in increasing order.
RECURSIVE MatchingBlocksIn(_, _, _, _, _, _)
MatchingBlocksAround(a, b, alo, ahi, blo, bhi, m) ==
    IF m[3] = 0 THEN <<>>
    ELSE (IF alo < m[1] /\ blo < m[2]
          THEN MatchingBlocksIn(a, b, alo, m[1], blo, m[2]) ELSE <<>>)
         \o <<m>>
         \o (IF m[1] + m[3] < ahi /\ m[2] + m[3] < bhi
             THEN MatchingBlocksIn(a, b, m[1] + m[3], ahi, m[2] + m[3], bhi) ELSE <<>>)

MatchingBlocksIn(a, b, alo, ahi, blo, bhi) ==
    MatchingBlocksAround(a, b, alo, ahi, blo, bhi,
                         find_longest_match(a, b, alo, ahi, blo, bhi))

\* get_matching_blocks: adjacent blocks are merged.
RECURSIVE CollapseBlocks(_, _)
CollapseBlocks(cur, rest) ==
    IF rest = <<>> THEN (IF cur[3] > 0 THEN <<cur>> ELSE <<>>)
    ELSE LET nxt == Head(rest) IN
         IF cur[1] + cur[3] = nxt[1] /\ cur[2] + cur[3] = nxt[2]
         THEN CollapseBlocks(<<cur[1], cur[2], cur[3] + nxt[3]>>, Tail(rest))
         ELSE (IF cur[3] > 0 THEN <<cur>> ELSE <<>>) \o CollapseBlocks(nxt, Tail(rest))

get_matching_blocks(a, b) ==
    CollapseBlocks(<<0, 0, 0>>, MatchingBlocksIn(a, b, 0, Len(a), 0, Len(b)))
    \o <<<<Len(a), Len(b), 0>>>>

\* get_opcodes: the opcodes from block n on, (i, j) being the ends of the
\* previous block.
RECURSIVE OpcodesFrom(_, _, _, _)
OpcodesFrom(blocks, n, i, j) ==
    IF n > Len(blocks) THEN <<>>
    ELSE LET ai == blocks[n][1]
             bj == blocks[n][2]
             size == blocks[n][3]
             tag == IF i < ai /\ j < bj THEN "replace"
                    ELSE IF i < ai THEN "delete"
                    ELSE IF j < bj THEN "insert"
                    ELSE ""
         IN  (IF tag # "" THEN <<<<tag, i, ai, j, bj>>>> ELSE <<>>)
             \o (IF size > 0 THEN <<<<"equal", ai, ai + size, bj, bj + size>>>> ELSE <<>>)
             \o OpcodesFrom(blocks, n + 1, ai + size, bj + size)

get_opcodes(a, b) == OpcodesFrom(get_matching_blocks(a, b), 1, 0, 0)

RECURSIVE SumSizes(_)
SumSizes(blocks) == IF blocks = <<>> THEN 0 ELSE Head(blocks)[3] + SumSizes(Tail(blocks))

\* A variant of the threshold test that finds every pair of texts similar.
Similar_Always(a, b) == TRUE

\* ratio() >= threshold and real_quick_ratio() >= threshold, in tenths:
\* 2.0 * matches / length >= 0.6, and 1.0 when both sequences are empty.
RatioAtLeast(matches, length, tenths) ==
    IF length = 0 THEN tenths <= 10 ELSE 20 * matches >= tenths * length

Similar(a, b) ==
    /\ RatioAtLeast(IF Len(a) < Len(b) THEN Len(a) ELSE Len(b), Len(a) + Len(b),
                    SIMILARITY_THREESHOLD_TENTHS)
    /\ RatioAtLeast(SumSizes(get_matching_blocks(a, b)), Len(a) + Len(b),
                    SIMILARITY_THREESHOLD_TENTHS)

\* The loop of lines 95-108 from opcode n on: the opcodes with their ranges
\* fixed, or overlap as soon as one starts before the end of a previous one
\* that is not an equal.
RECURSIVE FixOperations(_, _, _, _, _, _, _)
FixOperations(operations, n, before_bytes, after_bytes, prev_end, prev_tag, fixed) ==
    IF n > Len(operations) THEN [has_overlap |-> FALSE, fixed_operations |-> fixed]
    ELSE LET op == operations[n]
             i == fix_byte_range_to_char_boundary(before_bytes, op[2], op[3])
             j == fix_byte_range_to_char_boundary(after_bytes, op[4], op[5])
         IN  IF i[1] < prev_end /\ prev_tag # "equal"
             THEN [has_overlap |-> TRUE, fixed_operations |-> fixed]
             ELSE FixOperations(operations, n + 1, before_bytes, after_bytes, i[2], op[1],
                                Append(fixed, <<op[1], i[1], i[2], j[1], j[2]>>))

\* pycrdt Text writes: the bytes afterwards.
TextDelete(src, i, j) == Slice(src, 0, i) \o Slice(src, j, Len(src))
TextInsert(src, i, bytes) == Slice(src, 0, i) \o bytes \o Slice(src, i, Len(src))

\* A variant of the replay that deletes the whole text and inserts the new one.
Replay_Whole(ops, n, after_bytes, offset, t) ==
    [src |-> after_bytes,
     writes |-> <<<<"delete", 0, Len(t.src)>>, <<"insert", 0, after_bytes>>>>,
     ok |-> TRUE]

\* A variant of the replay that passes over an operation of unknown tag.
RECURSIVE Replay_SkipsUnknown(_, _, _, _, _)
Replay_SkipsUnknown(ops, n, after_bytes, offset, t) ==
    IF n > Len(ops) \/ ~t.ok THEN t
    ELSE LET tag == ops[n][1]
             i1 == ops[n][2]
             i2 == ops[n][3]
             j1 == ops[n][4]
             j2 == ops[n][5]
             piece == Slice(after_bytes, j1, j2)
             new == Encode(Decode(piece))
         IN  IF tag = "replace"
             THEN IF ~Decodable(piece) THEN [t EXCEPT !.ok = FALSE]
                  ELSE Replay_SkipsUnknown(ops, n + 1, after_bytes, offset + (j2 - j1) - (i2 - i1),
                         [t EXCEPT !.src = TextInsert(TextDelete(@, i1 + offset, i2 + offset),
                                                      i1 + offset, new),
                                   !.writes = @ \o <<<<"delete", i1 + offset, i2 - i1>>,
                                                     <<"insert", i1 + offset, new>>>>])
             ELSE IF tag = "delete"
             THEN Replay_SkipsUnknown(ops, n + 1, after_bytes, offset - (i2 - i1),
                         [t EXCEPT !.src = TextDelete(@, i1 + offset, i2 + offset),
                                   !.writes = Append(@, <<"delete", i1 + offset, i2 - i1>>)])
             ELSE IF tag = "insert"
             THEN IF ~Decodable(piece) THEN [t EXCEPT !.ok = FALSE]
                  ELSE Replay_SkipsUnknown(ops, n + 1, after_bytes, offset + (j2 - j1),
                         [t EXCEPT !.src = TextInsert(@, i1 + offset, new),
                                   !.writes = Append(@, <<"insert", i1 + offset, new>>)])
             ELSE Replay_SkipsUnknown(ops, n + 1, after_bytes, offset, t)

\* A variant of the replay that shifts the positions of an operation by the
\* bytes the earlier operations deleted only, not by the bytes they inserted.
RECURSIVE Replay_IgnoresInserted(_, _, _, _, _)
Replay_IgnoresInserted(ops, n, after_bytes, offset, t) ==
    IF n > Len(ops) \/ ~t.ok THEN t
    ELSE LET tag == ops[n][1]
             i1 == ops[n][2]
             i2 == ops[n][3]
             j1 == ops[n][4]
             j2 == ops[n][5]
             piece == Slice(after_bytes, j1, j2)
             new == Encode(Decode(piece))
         IN  IF tag = "replace"
             THEN IF ~Decodable(piece) THEN [t EXCEPT !.ok = FALSE]
                  ELSE Replay_IgnoresInserted(ops, n + 1, after_bytes, offset - (i2 - i1),
                         [t EXCEPT !.src = TextInsert(TextDelete(@, i1 + offset, i2 + offset),
                                                      i1 + offset, new),
                                   !.writes = @ \o <<<<"delete", i1 + offset, i2 - i1>>,
                                                     <<"insert", i1 + offset, new>>>>])
             ELSE IF tag = "delete"
             THEN Replay_IgnoresInserted(ops, n + 1, after_bytes, offset - (i2 - i1),
                         [t EXCEPT !.src = TextDelete(@, i1 + offset, i2 + offset),
                                   !.writes = Append(@, <<"delete", i1 + offset, i2 - i1>>)])
             ELSE IF tag = "insert"
             THEN IF ~Decodable(piece) THEN [t EXCEPT !.ok = FALSE]
                  ELSE Replay_IgnoresInserted(ops, n + 1, after_bytes, offset,
                         [t EXCEPT !.src = TextInsert(@, i1 + offset, new),
                                   !.writes = Append(@, <<"insert", i1 + offset, new>>)])
             ELSE IF tag = "equal"
             THEN Replay_IgnoresInserted(ops, n + 1, after_bytes, offset, t)
             ELSE [t EXCEPT !.ok = FALSE]

\* The replay of lines 117-136 from operation n on.  t = [src, writes, ok]: the
\* Text, the writes made on it, FALSE once a slice failed to decode or a tag
\* was none of replace, delete, insert, equal (ValueError, line 136).
RECURSIVE Replay(_, _, _, _, _)
Replay(ops, n, after_bytes, offset, t) ==
    IF n > Len(ops) \/ ~t.ok THEN t
    ELSE LET tag == ops[n][1]
             i1 == ops[n][2]
             i2 == ops[n][3]
             j1 == ops[n][4]
             j2 == ops[n][5]
             piece == Slice(after_bytes, j1, j2)
             new == Encode(Decode(piece))
         IN  IF tag = "replace"
             THEN IF ~Decodable(piece) THEN [t EXCEPT !.ok = FALSE]
                  ELSE Replay(ops, n + 1, after_bytes, offset + (j2 - j1) - (i2 - i1),
                         [t EXCEPT !.src = TextInsert(TextDelete(@, i1 + offset, i2 + offset),
                                                      i1 + offset, new),
                                   !.writes = @ \o <<<<"delete", i1 + offset, i2 - i1>>,
                                                     <<"insert", i1 + offset, new>>>>])
             ELSE IF tag = "delete"
             THEN Replay(ops, n + 1, after_bytes, offset - (i2 - i1),
                         [t EXCEPT !.src = TextDelete(@, i1 + offset, i2 + offset),
                                   !.writes = Append(@, <<"delete", i1 + offset, i2 - i1>>)])
             ELSE IF tag = "insert"
             THEN IF ~Decodable(piece) THEN [t EXCEPT !.ok = FALSE]
                  ELSE Replay(ops, n + 1, after_bytes, offset + (j2 - j1),
                         [t EXCEPT !.src = TextInsert(@, i1 + offset, new),
                                   !.writes = Append(@, <<"insert", i1 + offset, new>>)])
             ELSE IF tag = "equal"
             THEN Replay(ops, n + 1, after_bytes, offset, t)
             ELSE [t EXCEPT !.ok = FALSE]

\* clear() and `+= value` (lines 112-114 and 141-145).
HardReplace(src, value) ==
    [src |-> Encode(value),
     writes |-> (IF src # <<>> THEN <<<<"delete", 0, Len(src)>>>> ELSE <<>>)
                \o (IF value # <<>> THEN <<<<"insert", 0, Encode(value)>>>> ELSE <<>>),
     ok |-> TRUE]

\* The Text as the list of its items, one per byte: old is TRUE for an item that
\* was there before the transaction, del for one the transaction deleted.
NewItems(src) == [n \in 1..Len(src) |-> [b |-> src[n], old |-> TRUE, del |-> FALSE]]

\* The position in the list of the p-th visible item.
RECURSIVE VisibleAt(_, _, _)
VisibleAt(items, p, from) ==
    IF from > Len(items) THEN Len(items) + 1
    ELSE IF items[from].del THEN VisibleAt(items, p, from + 1)
    ELSE IF p = 1 THEN from
    ELSE VisibleAt(items, p - 1, from + 1)

\* del text[pos : pos + n]: an old item becomes a tombstone, an item inserted by
\* this transaction disappears.
RECURSIVE ItemsDelete(_, _, _)
ItemsDelete(items, pos, n) ==
    IF n = 0 THEN items
    ELSE LET at == VisibleAt(items, pos + 1, 1) IN
         IF at > Len(items) THEN items
         ELSE IF items[at].old
         THEN ItemsDelete([i \in 1..Len(items) |->
                             IF i = at THEN [b |-> items[i].b, old |-> TRUE, del |-> TRUE]
                             ELSE items[i]],
                          pos, n - 1)
         ELSE ItemsDelete(SubSeq(items, 1, at - 1) \o SubSeq(items, at + 1, Len(items)),
                          pos, n - 1)

\* The end of the run of tombstones that follows position k.
RECURSIVE AfterTombstones(_, _)
AfterTombstones(items, from) ==
    IF from < Len(items) /\ items[from + 1].del THEN AfterTombstones(items, from + 1) ELSE from

\* text.insert(pos, bytes): the new items go after the pos-th visible item and
\* the tombstones that follow it, as the deltas of the tests show (a replaced
\* range is reported as its delete followed by its insert).
ItemsInsert(items, pos, bytes) ==
    LET left == IF pos = 0 THEN 0 ELSE VisibleAt(items, pos, 1)
        at == AfterTombstones(items, IF left > Len(items) THEN Len(items) ELSE left)
        new == [n \in 1..Len(bytes) |-> [b |-> bytes[n], old |-> FALSE, del |-> FALSE]]
    IN  SubSeq(items, 1, at) \o new \o SubSeq(items, at + 1, Len(items))

RECURSIVE ItemsApply(_, _)
ItemsApply(items, writes) ==
    IF writes = <<>> THEN items
    ELSE LET w == Head(writes) IN
         ItemsApply(IF w[1] = "delete" THEN ItemsDelete(items, w[2], w[3])
                    ELSE ItemsInsert(items, w[2], w[3]),
                    Tail(writes))

\* The delta of the text event: runs of retained, deleted and inserted items,
\* without the retain that would end it.
ItemOp(item) ==
    IF item.del THEN <<"delete", 1>>
    ELSE IF item.old THEN <<"retain", 1>>
    ELSE <<"insert", <<item.b>>>>

RECURSIVE DeltaRuns(_, _)
DeltaRuns(items, acc) ==
    IF items = <<>> THEN acc
    ELSE LET op == ItemOp(Head(items))
             n == Len(acc)
         IN  IF n > 0 /\ acc[n][1] = op[1]
             THEN DeltaRuns(Tail(items),
                            [acc EXCEPT ![n] = <<op[1], IF op[1] = "insert" THEN acc[n][2] \o op[2]
                                                        ELSE acc[n][2] + 1>>])
             ELSE DeltaRuns(Tail(items), Append(acc, op))

TextDelta(src, writes) ==
    LET runs == DeltaRuns(ItemsApply(NewItems(src), writes), <<>>)
        n == Len(runs)
    IN  IF n > 0 /\ runs[n][1] = "retain" THEN SubSeq(runs, 1, n - 1) ELSE runs

\* A variant of get that reads every document as empty.
UnicodeGet_Empty(src) == <<>>

\* YUnicode.get (lines 55-62).
UnicodeGet(src) == Decode(src)

\* YUnicode.set (lines 64-145): the Text afterwards, the path taken, whether a
\* transaction was opened, the writes and the callbacks delivered.  A value
\* that holds a surrogate makes line 78 raise, before the transaction.
UnicodeSetWith(src, value, operations) ==
    LET old_value == UnicodeGet(src)
        before_bytes == Encode(old_value)
        after_bytes == Encode(value)
        f == FixOperations(operations, 1,
                           before_bytes, after_bytes, 0, "", <<>>)
        path == IF old_value = value THEN "noop"
                ELSE IF after_bytes = UnicodeEncodeError THEN "unencodable"
                ELSE IF ~Similar(before_bytes, after_bytes) THEN "hard"
                ELSE IF f.has_overlap THEN "overlap"
                ELSE "granular"
        t == IF path = "noop" THEN [src |-> src, writes |-> <<>>, ok |-> TRUE]
             ELSE IF path = "unencodable" THEN [src |-> src, writes |-> <<>>, ok |-> FALSE]
             ELSE IF path = "granular"
             THEN Replay(f.fixed_operations, 1, after_bytes, 0,
                         [src |-> src, writes |-> <<>>, ok |-> TRUE])
             ELSE HardReplace(src, value)
    IN  [src |-> t.src, path |-> path, opened |-> path \notin {"noop", "unencodable"},
         writes |-> t.writes,
         raised |-> ~t.ok,
         calls |-> IF t.writes # <<>> THEN <<"source">> ELSE <<>>]

\* YUnicode.set with the operations SequenceMatcher.get_opcodes() returns.
UnicodeSet(src, value) ==
    UnicodeSetWith(src, value, get_opcodes(Encode(UnicodeGet(src)), Encode(value)))

NoStr == <<-1>>
NewYUnicode ==
    [src |-> <<>>, op |-> "none", arg |-> NoStr, pre |-> <<>>, path |-> "none",
     opened |-> FALSE, writes |-> <<>>, raised |-> FALSE, calls |-> <<>>, got |-> NoStr]

\* ------------------------------------------------------------------ YBlob
\* A bytes object is the sequence of its bytes; b"" is <<>>.
NoBytes == <<-1>>

\* YBlob.get (lines 64-74): the stored bytes, b"" when the key is missing.
BlobGet(ysource) == IF "bytes" \in DOMAIN ysource THEN ysource["bytes"] ELSE <<>>

\* A variant of set that writes the key only when the map does not hold it.
BlobSet_KeepsFirst(ysource, value) ==
    IF "bytes" \in DOMAIN ysource THEN ysource ELSE DictPut(ysource, "bytes", value)

\* YBlob.set (lines 76-83): self._ysource.bytes = value, whatever the map holds.
BlobSet(ysource, value) == DictPut(ysource, "bytes", value)

\* The callbacks a write to the shared type delivers: one for each observer
\* registered on it, in the order of registration, each with the topic that
\* observe bound to it (partial(callback, topic)).
RECURSIVE Deliver(_, _, _, _)
Deliver(observers, type, keys, change) ==
    LET on == {o \in observers : o.type = type} IN
    IF on = {} THEN <<>>
    ELSE LET first == CHOOSE o \in on : \A other \in on : o.cb <= other.cb IN
         <<[cb |-> first.cb, topic |-> first.topic, keys |-> keys, change |-> change]>>
         \o Deliver(observers \ {first}, type, keys, change)

\* What the event of a map write says of the key (event.keys[key]): the action
\* is add when the key was absent and update when it held a value; oldValue is
\* there only for an update (old is the set of the old values: one or none).
KeyChange(map, key, value) ==
    IF key \in DOMAIN map
    THEN [action |-> "update", old |-> {map[key]}, new |-> value]
    ELSE [action |-> "add", old |-> {}, new |-> value]

\* The roots a document observes, in the order observe() enters them in
\* self._subscriptions (a dict is iterated in insertion order).
RootOrder(doc) ==
    IF doc = "notebook" THEN <<"state", "meta", "cells">> ELSE <<"state", "source">>

\* The keys of the table that are TypedMap wrappers and not shared types:
\* self._ystate of every document (ybasedoc.py line 51), and self._ysource of
\* the blob (yblob.py line 51).
TypedKeys(doc) == IF doc = "blob" THEN {"state", "source"} ELSE {"state"}

\* The loop of YBaseDoc.unobserve over the entries that are left: k.unobserve(v)
\* raises when k is a typed wrapper of a build whose wrappers do not pass
\* unobserve on to the map they wrap, or when the shared type does not hold
\* the subscription.  The loop then stops: the entries before k are
\* unregistered, k and the entries after it are not, and the table is as it
\* was, because line 218 is not reached.
RECURSIVE UnobserveEntries(_, _)
UnobserveEntries(b, keys) ==
    IF keys = <<>> THEN [b EXCEPT !.subscriptions = <<>>]
    ELSE LET k == Head(keys)
             held == {o \in b.observers : o.type = k /\ o.cb = b.subscriptions[k]}
         IN  IF (k \in TypedKeys(b.doc) /\ b.typed = "refuses") \/ held = {}
             THEN [b EXCEPT !.raised = TRUE]
             ELSE UnobserveEntries([b EXCEPT !.observers = @ \ held], Tail(keys))

\* YBaseDoc.unobserve (ybasedoc.py lines 210-218): k.unobserve(v) for every
\* entry of the table, then an empty table.
BaseUnobserve(b) ==
    UnobserveEntries(b, SelectSeq(RootOrder(b.doc), LAMBDA k : k \in DOMAIN b.subscriptions))

\* ------------------------------------------------------------------ observe
\* YBaseDoc.__init__ (self._subscriptions = {}): no subscription, no observer
\* on a shared type; nobs counts the callbacks passed to observe so far.  typed
\* says what the typed wrappers of the build do with unobserve: it is not
\* known before a call reaches one.
NewSubscriptions(doc) ==
    [doc |-> doc, typed |-> "unknown", subscriptions |-> <<>>, observers |-> {},
     nobs |-> 0, raised |-> FALSE, calls |-> <<>>, op |-> "none"]

\* A variant of observe that binds the observer of every root to the topic
\* state.
DocObserve_OneTopic(b, doc) ==
    LET u == BaseUnobserve(b)
        cb == b.nobs + 1
        roots == {RootOrder(doc)[k] : k \in 1..Len(RootOrder(doc))}
    IN  IF u.raised THEN [u EXCEPT !.nobs = cb]
        ELSE [u EXCEPT !.observers = @ \cup {[type |-> r, cb |-> cb, topic |-> "state"] : r \in roots},
                       !.subscriptions = [k \in roots |-> cb],
                       !.nobs = cb]

\* YNotebook.observe (ynotebook.py lines 438-448) and YUnicode.observe
\* (yunicode.py lines 147-156): unobserve, then one observer per root, each
\* calling the callback with the topic of its root.  When unobserve raises,
\* nothing is registered.
DocObserve(b, doc) ==
    LET u == BaseUnobserve(b)
        cb == b.nobs + 1
        roots == {RootOrder(doc)[k] : k \in 1..Len(RootOrder(doc))}
    IN  IF u.raised THEN [u EXCEPT !.nobs = cb]
        ELSE [u EXCEPT !.observers = @ \cup {[type |-> r, cb |-> cb, topic |-> r] : r \in roots},
                       !.subscriptions = [k \in roots |-> cb],
                       !.nobs = cb]

\* YBlob.observe (lines 85-94): unobserve, then one observer on the map the
\* state wrapper holds and one on the map the source wrapper holds, calling
\* the callback with the topics state and source.  When unobserve raises,
\* nothing is registered.
BlobObserve(b) ==
    LET u == BaseUnobserve(b)
        cb == b.nobs + 1
    IN  IF u.raised THEN [u EXCEPT !.nobs = cb]
        ELSE [u EXCEPT !.observers = @ \cup {[type |-> "state", cb |-> cb, topic |-> "state"],
                                             [type |-> "source", cb |-> cb, topic |-> "source"]},
                       !.subscriptions = [k \in {"state", "source"} |-> cb],
                       !.nobs = cb]

NewYBlob ==
    [ysource |-> <<>>, ystate |-> <<>>, doc |-> "blob", typed |-> "unknown",
     subscriptions |-> <<>>, observers |-> {},
     nobs |-> 0, unobserves |-> 0, raised |-> FALSE,
     op |-> "none", arg |-> NoBytes, pre |-> <<>>, prestate |-> <<>>,
     calls |-> <<>>, got |-> NoBytes, lastset |-> NoBytes]

\* ------------------------------------------------------------------ state
VARIABLES
    ycells,     \* self._ycells: the live cells, in order
    ymeta,      \* self._ymeta: nbformat, nbformat_minor, metadata
    ystate,     \* self._ystate: dirty, path, hash, ...
    uuid,       \* the number of uuid4() identifiers generated so far
    nh,         \* the next handle identity create_ycell hands out
    txn,        \* the write log of the open transaction
    calls,      \* the observer callbacks delivered during the last API call
    warnings,   \* the warnings emitted during the last API call
    gen,        \* the frame of a suspended _set generator (aset)
    ggen,       \* the frame of a suspended _get generator (aget)
    last,       \* history: the last mutating API call, its argument and pre-state,
                \* and the live array before the last get()
    ret,        \* history: the value the last get() returned
    yu,         \* a YUnicode document: its Text and the history of its last call
    yb,         \* a YBlob document: its maps, its observers and the history of its last call
    subs        \* the subscriptions of the notebook and of the text document: for each,
                \* self._subscriptions and the observers its shared types hold

vars == <<ycells, ymeta, ystate, uuid, nh, txn, calls, warnings, gen, ggen, last, ret, yu, yb, subs>>

IdleFrame == [NewFrame(NoVal) EXCEPT !.pc = "idle"]
IdleGetFrame == [NewGetFrame(TRUE) EXCEPT !.pc = "idle"]
NoCall == [op |-> "none", arg |-> NoVal, pre |-> <<>>, premeta |-> <<>>,
           prestate |-> <<>>, preuuid |-> 0, getcalls |-> <<>>, getpre |-> <<>>,
           retained |-> {}, refused |-> {}]

\* The machine record of the current state.
Pack ==
    [ycells |-> ycells, ymeta |-> ymeta, ystate |-> ystate, uuid |-> uuid, nh |-> nh,
     txn |-> txn, calls |-> calls, warnings |-> warnings, g |-> gen, q |-> ggen,
     order |-> KeyOrder]

\* The document part of a machine record becomes the next state.
Unpack(M) ==
    /\ ycells' = M.ycells
    /\ ymeta' = M.ymeta
    /\ ystate' = M.ystate
    /\ uuid' = M.uuid
    /\ nh' = M.nh
    /\ txn' = M.txn
    /\ calls' = M.calls
    /\ warnings' = M.warnings

\* A new API call starts: its callbacks and warnings are collected from scratch.
Enter == [Pack EXCEPT !.calls = <<>>, !.warnings = <<>>]

Settled == last.op = "none" /\ ret = NoVal

Init ==
    /\ ycells = <<>>
    /\ ymeta = <<>>
    /\ ystate = <<>>
    /\ uuid = 0
    /\ nh = 1
    /\ txn = NoTxn
    /\ calls = <<>>
    /\ warnings = <<>>
    /\ gen = IdleFrame
    /\ ggen = IdleGetFrame
    /\ last = NoCall
    /\ ret = NoVal
    /\ yu = NewYUnicode
    /\ yb = NewYBlob
    /\ subs = [doc \in {"notebook", "text"} |-> NewSubscriptions(doc)]

\* ------------------------------------------------------------------ operations
\* YNotebook.set(value), run to completion (lines 279-292).
SetCall(value, op) ==
    /\ Len(value["cells"]) <= MaxCells
    /\ \E R \in RunSet([Enter EXCEPT !.g = NewFrame(value)]) :
       /\ R.uuid <= MaxUuid
       /\ Unpack(R)
       /\ last' = [op |-> IF R.g.pc = "raised" THEN "raised" ELSE op, arg |-> value,
                   pre |-> ycells, premeta |-> ymeta, prestate |-> ystate,
                   preuuid |-> uuid, getcalls |-> calls, getpre |-> last.getpre,
                   retained |-> R.g.retained, refused |-> R.g.refused]
       /\ ret' = NoVal
       /\ UNCHANGED <<gen, ggen, yu, yb, subs>>

Set(value) == Settled /\ SetCall(value, "set")

\* set(get()): the caller passes back the value the last get() returned.
SetGot == last.op = "none" /\ ret # NoVal /\ SetCall(ret, "setgot")

\* YNotebook.get(deduplicate), run to completion (lines 207-223).
Get(deduplicate) ==
    /\ ret = NoVal
    /\ \E R \in {RunGet([Enter EXCEPT !.q = NewGetFrame(deduplicate)])} :
       /\ R.uuid <= MaxUuid
       /\ Unpack(R)
       /\ ret' = R.q.val
       /\ last' = [last EXCEPT !.getpre = ycells]
       /\ UNCHANGED <<gen, ggen, yu, yb, subs>>

\* YNotebook.append_cell(value) (lines 134-142).
AppendCell(value, limit) ==
    /\ Settled
    /\ Len(ycells) < limit
    /\ \E R \in {AutoCommit(ArrayInsertNew(Enter, Len(ycells) + 1, value))} :
       /\ R.uuid <= MaxUuid
       /\ Unpack(R)
       /\ last' = [NoCall EXCEPT !.op = "append", !.arg = value, !.pre = ycells,
                                 !.premeta = ymeta, !.prestate = ystate]
       /\ UNCHANGED <<gen, ggen, ret, yu, yb, subs>>

\* A variant of set_cell that inserts the new cell and leaves the old one.
SetCell_Inserts(index, value) ==
    /\ Settled
    /\ index \in 1..Len(ycells)
    /\ \E R \in {AutoCommit(ArrayInsertNew(Enter, index, value))} :
       /\ R.uuid <= MaxUuid
       /\ Unpack(R)
       /\ last' = [NoCall EXCEPT !.op = "set_cell", !.arg = value, !.pre = ycells,
                                 !.premeta = ymeta, !.prestate = ystate]
       /\ UNCHANGED <<gen, ggen, ret, yu, yb, subs>>

\* YNotebook.set_cell(index, value) (lines 144-155, 195-205): the array item
\* assignment removes the cell at the index and inserts the new one in its place.
SetCell(index, value) ==
    /\ Settled
    /\ index \in 1..Len(ycells)
    /\ \E R \in {AutoCommit(ArrayInsertNew(ArrayDelete(Enter, index), index, value))} :
       /\ R.uuid <= MaxUuid
       /\ Unpack(R)
       /\ last' = [NoCall EXCEPT !.op = "set_cell", !.arg = value, !.pre = ycells,
                                 !.premeta = ymeta, !.prestate = ystate]
       /\ UNCHANGED <<gen, ggen, ret, yu, yb, subs>>

\* The number of stdin dicts among the outputs of a live cell.
StdinCount(ycell) ==
    IF "outputs" \notin DOMAIN ycell.d THEN 0
    ELSE Cardinality({n \in 1..Len(ycell.d["outputs"]) :
                         ycell.d["outputs"][n].output_type = "stdin"})

\* add_stdin(self.ycells[index], prompt, password) (ystdin.py lines 9-39), on a
\* cell that holds fewer than MaxStdin stdin outputs.
AddStdin(index, prompt, password) ==
    /\ Settled
    /\ index \in 1..Len(ycells)
    /\ StdinCount(ycells[index]) < MaxStdin
    /\ \E r \in {add_stdin(Enter, index, prompt, password)} :
       \E R \in {AutoCommit(r.M)} :
       /\ R.uuid <= MaxUuid
       /\ Unpack(R)
       /\ last' = [NoCall EXCEPT !.op = IF r.returned = NoneId THEN "add_stdin_raised"
                                        ELSE "add_stdin",
                                 !.pre = ycells, !.premeta = ymeta,
                                 !.prestate = ystate, !.preuuid = uuid]
       /\ UNCHANGED <<gen, ggen, ret, yu, yb, subs>>

\* The dirty / hash / path setters of YBaseDoc: self._ystate.<key> = value.
SetStateKey(key, value) ==
    /\ Settled
    /\ \E R \in {AutoCommit([Enter EXCEPT !.ystate = DictPut(@, key, value),
                                         !.txn.state = @ \cup {key}])} :
       /\ Unpack(R)
       /\ last' = [NoCall EXCEPT !.op = "state", !.pre = ycells, !.premeta = ymeta,
                                 !.prestate = ystate]
       /\ UNCHANGED <<gen, ggen, ret, yu, yb, subs>>

\* A variant of the aset loop body that awaits a checkpoint at every second
\* yield only.
ASetNext_SkipsCheckpoint(M) == GenStep(GenStep(M))

\* One turn of `for val in self._set(value): await lowlevel.checkpoint()`
\* (lines 435-436): next() runs the generator to its next yield.
ASetNext(M) == GenStep(M)

\* One turn of `for val in self._get(deduplicate): await lowlevel.checkpoint()`
\* (lines 421-422).
AGetNext(M) == GetStep(M)

\* aset(value) starts: the generator runs to its first yield (lines 427-436).
ASetStart(value) ==
    /\ Settled
    /\ Len(value["cells"]) <= MaxCells
    /\ \E R \in {ASetNext([Enter EXCEPT !.g = NewFrame(value)])} :
       /\ R.uuid <= MaxUuid
       /\ Unpack(R)
       /\ gen' = R.g
       /\ last' = [NoCall EXCEPT !.op = "aset", !.arg = value, !.pre = ycells,
                                 !.premeta = ymeta, !.prestate = ystate, !.preuuid = uuid]
       /\ UNCHANGED <<ggen, ret, yu, yb, subs>>

\* The event loop resumes aset after a checkpoint.
ASetStep ==
    /\ gen.pc \notin {"idle", "done", "raised", "cancelled"}
    /\ \E R \in {ASetNext([Pack EXCEPT !.order = o]) : o \in StepOrders(Pack)} :
       /\ Unpack(R)
       /\ gen' = R.g
       /\ last' = [last EXCEPT !.retained = R.g.retained, !.refused = R.g.refused]
       /\ UNCHANGED <<ggen, ret, yu, yb, subs>>

\* aget(deduplicate) starts: the generator runs to its first yield (lines 411-425).
AGetStart(deduplicate) ==
    /\ Settled
    /\ \E R \in {AGetNext([Enter EXCEPT !.q = NewGetFrame(deduplicate)])} :
       /\ R.uuid <= MaxUuid
       /\ Unpack(R)
       /\ ggen' = R.q
       /\ last' = [NoCall EXCEPT !.op = "aget", !.pre = ycells, !.premeta = ymeta,
                                 !.prestate = ystate, !.preuuid = uuid]
       /\ UNCHANGED <<gen, ret, yu, yb, subs>>

\* The event loop resumes aget after a checkpoint: the next yield, or the
\* return of the last value yielded.
AGetStep ==
    /\ ggen.pc \in {"G1", "done"}
    /\ \E R \in {AGetNext(Pack)} :
       /\ R.uuid <= MaxUuid
       /\ IF ggen.pc = "done"
          THEN /\ ret' = ggen.val
               /\ ggen' = [ggen EXCEPT !.pc = "returned"]
               /\ UNCHANGED <<ycells, ymeta, ystate, uuid, nh, txn, calls, warnings>>
          ELSE /\ Unpack(R)
               /\ ggen' = R.q
               /\ UNCHANGED ret
       /\ UNCHANGED <<gen, last, yu, yb, subs>>

\* Another task runs at a checkpoint of aset or aget and reads the document
\* with get(deduplicate=False), which writes nothing; it keeps the value to itself.
ReaderRuns ==
    /\ gen.pc \notin {"idle", "done", "raised", "cancelled"} \/ ggen.pc \in {"G1", "done"}
    /\ \E R \in {RunGet([Enter EXCEPT !.q = NewGetFrame(FALSE)])} :
       /\ R.calls = <<>>
       /\ UNCHANGED vars

\* The host cancels aset at one of its checkpoints (line 436): the coroutine
\* unwinds, the suspended generator is closed, and a generator suspended inside
\* `with self._ydoc.transaction()` (line 321) leaves the block, which commits
\* the writes made so far.
ASetCancel ==
    /\ gen.pc \notin {"idle", "done", "raised", "cancelled"}
    /\ \E R \in {IF txn.open THEN Commit(Pack) ELSE Pack} :
       /\ Unpack(R)
       /\ gen' = [gen EXCEPT !.pc = "cancelled"]
       /\ last' = [last EXCEPT !.op = "cancelled", !.retained = gen.retained,
                                !.refused = gen.refused]
       /\ UNCHANGED <<ggen, ret, yu, yb, subs>>

\* The caller moves on: the history of the last call is dropped.  Handle
\* identities are opaque, so the live cells are renumbered by position.
Settle ==
    /\ ~Settled
    /\ gen.pc \in {"idle", "done", "raised", "cancelled"} /\ ggen.pc \in {"idle", "returned"}
    /\ ycells' = [k \in 1..Len(ycells) |-> [ycells[k] EXCEPT !.h = k]]
    /\ nh' = Len(ycells) + 1
    /\ calls' = <<>>
    /\ warnings' = <<>>
    /\ last' = NoCall
    /\ ret' = NoVal
    /\ gen' = IdleFrame
    /\ ggen' = IdleGetFrame
    /\ UNCHANGED <<ymeta, ystate, uuid, txn, yu, yb, subs>>

\* ------------------------------------------------------------------ inputs
Ids == {"A", "B", "C"}

MdCell(id, source) ==
    [id |-> id, cell_type |-> "markdown", source |-> source, metadata |-> "{}"]
CodeCell(id, source) ==
    [id |-> id, cell_type |-> "code", source |-> source, metadata |-> "{}",
     outputs |-> <<>>, execution_count |-> PyInt(1)]

\* The cells a caller passes in the specification Spec.
Pool == {MdCell(id, "a") : id \in Ids} \cup {CodeCell(id, "a") : id \in Ids}
NoIdCell == DictDel(MdCell("A", "a"), "id")

\* Lists of at most n cells with pairwise distinct ids.
DistinctLists(S, n) ==
    {l \in UNION {[1..k -> S] : k \in 0..n} :
        \A a, b \in 1..Len(l) : a # b /\ IdOf(l[a]) # NoneId => IdOf(l[a]) # IdOf(l[b])}

Full45 ==
    [nbformat |-> PyInt(4), nbformat_minor |-> PyInt(5),
     metadata |-> [kernelspec |-> "python3", language_info |-> "python",
                   n |-> PyInt(7)]]

Snapshot(cells, nb) ==
    [k \in {"cells"} \cup DOMAIN nb |-> IF k = "cells" THEN cells ELSE nb[k]]

\* The snapshots a caller passes in the specification Spec: every list of at
\* most MaxCells cells with distinct ids, the empty one included.
Snapshots == {Snapshot(l, Full45) : l \in DistinctLists(Pool, MaxCells)}

Next ==
    \/ \E v \in Snapshots : Set(v)
    \/ \E c \in Pool : AppendCell(c, MaxCells)
    \/ Get(TRUE)
    \/ SetGot
    \/ Settle

Spec == Init /\ [][Next]_vars

\* ------------------------------------------------------------------ one cell, many fields
\* The variants of one code cell that differ from CodeCell("A", "a") in one field,
\* and a markdown cell with and without empty attachments.
FieldCells ==
    LET base == CodeCell("A", "a") IN
    {base,
     [base EXCEPT !["source"] = "b"],
     [base EXCEPT !["execution_count"] = PyInt(2)],
     [base EXCEPT !["execution_count"] = PyFloat(1)],
     [base EXCEPT !["metadata"] = "{tags}"],
     DictPut(base, "new_key", "test"),
     [base EXCEPT !["outputs"] = <<StreamOutput>>],
     [base EXCEPT !["outputs"] = <<ExecuteResult>>],
     MdCell("A", "a"),
     DictPut(MdCell("A", "a"), "attachments", "{}")}

\* The cells append_cell is called with in SpecFields.
AppendedCells == {CodeCell("A", "a"), CodeCell("A", "b"), CodeCell("B", "a")}

Full44 == [Full45 EXCEPT !["nbformat_minor"] = PyInt(4)]
CellsOnly == <<>>

\* The snapshots of SpecFields: no cell or one cell, with no notebook-level
\* key, as nbformat 4.5 or as nbformat 4.4.
FieldSnapshots ==
    {Snapshot(l, nb) : l \in {<<>>} \cup {<<c>> : c \in FieldCells},
                       nb \in {CellsOnly, Full45, Full44}}

\* The longest live array append_cell builds in SpecFields.
MaxAppended == 2

NextFields ==
    \/ \E v \in FieldSnapshots : Set(v)
    \/ \E c \in AppendedCells : AppendCell(c, MaxAppended)
    \/ SetStateKey("dirty", "true")
    \/ SetStateKey("hash", "h")
    \/ Get(TRUE)
    \/ SetGot
    \/ Settle

SpecFields == Init /\ [][NextFields]_vars

\* ------------------------------------------------------------------ async drivers
\* The cells and snapshots of SpecAsync.
AsyncPool == {MdCell("A", "a"), MdCell("B", "a"), CodeCell("A", "a")}
MaxAsyncCells == 2
AsyncSnapshots == {Snapshot(l, Full45) : l \in DistinctLists(AsyncPool, MaxAsyncCells)}

NextAsync ==
    \/ \E v \in AsyncSnapshots : Set(v)
    \/ \E c \in AsyncPool : AppendCell(c, MaxCells)
    \/ \E v \in AsyncSnapshots : ASetStart(v)
    \/ ASetStep
    \/ AGetStart(TRUE)
    \/ AGetStep
    \/ ReaderRuns
    \/ Settle

SpecAsync == Init /\ [][NextAsync]_vars

\* ------------------------------------------------------------------ cancellation
\* The asynchronous drivers, with a host that may cancel aset at a checkpoint.
NextCancel ==
    \/ \E v \in AsyncSnapshots : Set(v)
    \/ \E c \in AsyncPool : AppendCell(c, MaxCells)
    \/ \E v \in AsyncSnapshots : ASetStart(v)
    \/ ASetStep
    \/ ASetCancel
    \/ ReaderRuns
    \/ Settle

SpecCancel == Init /\ [][NextCancel]_vars

\* ------------------------------------------------------------------ one transaction per call
\* set and aset on snapshots of at most MaxTxnCells cells, as nbformat 4.5 with
\* its metadata and with no notebook-level key, with a caller that also writes
\* the hash.
TxnPool == {CodeCell("A", "a"), CodeCell("A", "b"), MdCell("B", "a")}
MaxTxnCells == 2
TxnSnapshots ==
    {Snapshot(l, nb) : l \in DistinctLists(TxnPool, MaxTxnCells), nb \in {Full45, CellsOnly}}

NextTxn ==
    \/ \E v \in TxnSnapshots : Set(v)
    \/ \E v \in TxnSnapshots : ASetStart(v)
    \/ ASetStep
    \/ SetStateKey("hash", "h")
    \/ Settle

SpecTxn == Init /\ [][NextTxn]_vars

\* ------------------------------------------------------------------ cell ids
\* Every way the notebook API writes cells, with cells that share an id: lists
\* passed to set and aset may repeat an id, and append_cell is given a cell
\* whose id they use and a cell whose id is the empty string (add_stdin makes
\* two such cells differ in content).
IdPool == {CodeCell("A", "a"), CodeCell("A", "b"), MdCell("B", "a")}
AppendPool == {CodeCell("A", "a"), CodeCell("", "a")}
MaxIdCells == 2
IdSnapshots ==
    {Snapshot(l, Full45) : l \in UNION {[1..k -> IdPool] : k \in 0..MaxIdCells}}

\* The arguments add_stdin is called with: its defaults, and a password prompt.
StdinArgs == {[prompt |-> "", password |-> FALSE], [prompt |-> "pw: ", password |-> TRUE]}

NextIds ==
    \/ \E v \in IdSnapshots : Set(v)
    \/ \E v \in IdSnapshots : ASetStart(v)
    \/ ASetStep
    \/ \E c \in AppendPool : AppendCell(c, MaxCells)
    \/ \E c \in IdPool, i \in 1..MaxCells : SetCell(i, c)
    \/ \E i \in 1..MaxCells, a \in StdinArgs : AddStdin(i, a.prompt, a.password)
    \/ Get(TRUE)
    \/ Settle

SpecIds == Init /\ [][NextIds]_vars

\* ------------------------------------------------------------------ duplicated ids at read time
\* get() on arrays that append_cell filled with cells sharing an id, the empty
\* id included, under nbformat 4.5 and 4.4.
DedupPool ==
    {CodeCell("A", "a"), CodeCell("A", "b"), MdCell("A", "a"),
     CodeCell("", "a"), CodeCell("", "b"),
     [CodeCell("A", "a") EXCEPT !["execution_count"] = None],
     DictDel(CodeCell("A", "a"), "execution_count")}
DedupSnapshots == {Snapshot(<<c>>, nb) : c \in {CodeCell("A", "a")}, nb \in {Full45, Full44}}

NextDedup ==
    \/ \E v \in DedupSnapshots : Set(v)
    \/ \E c \in DedupPool : AppendCell(c, MaxCells)
    \/ Get(TRUE)
    \/ Settle

SpecDedup == Init /\ [][NextDedup]_vars

\* ------------------------------------------------------------------ YUnicode
\* YUnicode.set(value) with an observer subscribed.
USet(value) ==
    \E r \in {UnicodeSet(yu.src, value)} :
    /\ yu' = [src |-> r.src, op |-> "set", arg |-> value, pre |-> yu.src, path |-> r.path,
              opened |-> r.opened, writes |-> r.writes, raised |-> r.raised,
              calls |-> r.calls, got |-> NoStr]
    /\ UNCHANGED <<ycells, ymeta, ystate, uuid, nh, txn, calls, warnings, gen, ggen, last, ret, yb, subs>>

\* The operations with the tag of the k-th one replaced by a tag outside the
\* vocabulary of SequenceMatcher.get_opcodes().
WithForeignTag(ops, k) ==
    [n \in 1..Len(ops) |->
        IF n = k THEN <<"move", ops[n][2], ops[n][3], ops[n][4], ops[n][5]>> ELSE ops[n]]

\* YUnicode.set(value) when get_opcodes() breaks its contract and returns one
\* operation, the k-th, with an unknown tag.
USetForeign(value) ==
    \E ops \in {get_opcodes(Encode(UnicodeGet(yu.src)), Encode(value))} :
    \E k \in 1..Len(ops) :
    \E r \in {UnicodeSetWith(yu.src, value, WithForeignTag(ops, k))} :
    /\ yu' = [src |-> r.src, op |-> "set_foreign", arg |-> value, pre |-> yu.src,
              path |-> r.path, opened |-> r.opened, writes |-> r.writes,
              raised |-> r.raised, calls |-> r.calls, got |-> NoStr]
    /\ UNCHANGED <<ycells, ymeta, ystate, uuid, nh, txn, calls, warnings, gen, ggen, last, ret, yb, subs>>

\* YUnicode.get() right after a set.
UGet ==
    /\ yu.op = "set" /\ yu.got = NoStr
    /\ yu' = [yu EXCEPT !.got = UnicodeGet(yu.src)]
    /\ UNCHANGED <<ycells, ymeta, ystate, uuid, nh, txn, calls, warnings, gen, ggen, last, ret, yb, subs>>

\* ------------------------------------------------------------------ YBlob operations
\* The number of observe() calls, and of unobserve() calls in a row.
MaxObserve == 2
MaxUnobserve == 2

\* The start of a call on the blob: the history of the call before is dropped.
BlobCall(op, arg) ==
    [yb EXCEPT !.op = op, !.arg = arg, !.pre = yb.ysource, !.prestate = yb.ystate,
               !.calls = <<>>, !.got = NoBytes, !.raised = FALSE]

notBlob ==
    <<ycells, ymeta, ystate, uuid, nh, txn, calls, warnings, gen, ggen, last, ret, yu, subs>>

\* YBlob.set(value) (lines 76-83).
BSet(value) ==
    /\ yb' = [BlobCall("set", value) EXCEPT
                 !.ysource = BlobSet(@, value),
                 !.lastset = value,
                 !.calls = Deliver(yb.observers, "source", {"bytes"},
                                   KeyChange(yb.ysource, "bytes", value))]
    /\ UNCHANGED notBlob

\* YBlob.get() (lines 64-74).
BGet ==
    /\ yb.op # "get"
    /\ yb' = [BlobCall("get", NoBytes) EXCEPT !.got = BlobGet(yb.ysource)]
    /\ UNCHANGED notBlob

\* set(get()): the caller passes back what get() has just returned.
BSetGot ==
    /\ yb.op = "get"
    /\ yb' = [BlobCall("setgot", yb.got) EXCEPT
                 !.ysource = BlobSet(@, yb.got),
                 !.lastset = yb.got,
                 !.calls = Deliver(yb.observers, "source", {"bytes"},
                                   KeyChange(yb.ysource, "bytes", yb.got))]
    /\ UNCHANGED notBlob

\* The dirty setter of YBaseDoc (ybasedoc.py lines 127-135).
BSetDirty(value) ==
    /\ yb' = [BlobCall("dirty", NoBytes) EXCEPT
                 !.ystate = DictPut(@, "dirty", value),
                 !.calls = Deliver(yb.observers, "state", {"dirty"},
                                   KeyChange(yb.ystate, "dirty", value))]
    /\ UNCHANGED notBlob

\* The hash and path setters of YBaseDoc on the blob (ybasedoc.py lines
\* 148-178): self._ystate.<key> = value.
BSetStateKey(key, value) ==
    /\ yb' = [BlobCall(key, NoBytes) EXCEPT
                 !.ystate = DictPut(@, key, value),
                 !.calls = Deliver(yb.observers, "state", {key},
                                   KeyChange(yb.ystate, key, value))]
    /\ UNCHANGED notBlob

\* The keys and values the hash and path setters of the blob are called with.
BlobStateKeys == {<<"hash", "h">>, <<"path", "p">>}

\* What the typed wrappers do with unobserve in a call on the table of b.  The
\* three documents live in one process and share the build: what one call
\* found holds for every later call; a call on an empty table finds nothing.
TypedOutcomes(b) ==
    LET known == ({yb.typed} \cup {subs[d].typed : d \in DOMAIN subs}) \ {"unknown"} IN
    IF b.subscriptions = <<>> THEN {b.typed}
    ELSE IF known # {} THEN known
    ELSE {"forwards", "refuses"}

\* YBlob.observe(callback) with a callback not passed before.
BObserve ==
    /\ yb.nobs < MaxObserve
    /\ \E t \in TypedOutcomes(yb) :
          yb' = [BlobObserve([BlobCall("observe", NoBytes) EXCEPT !.typed = t])
                    EXCEPT !.unobserves = 0]
    /\ UNCHANGED notBlob

\* YBaseDoc.unobserve().
BUnobserve ==
    /\ yb.unobserves < MaxUnobserve
    /\ \E t \in TypedOutcomes(yb) :
          yb' = [BaseUnobserve([BlobCall("unobserve", NoBytes) EXCEPT !.typed = t])
                    EXCEPT !.unobserves = @ + 1]
    /\ UNCHANGED notBlob

\* observe(callback) on the notebook or on the text document, with a callback
\* that was not passed before.
DObserve(doc) ==
    /\ subs[doc].nobs < MaxObserve
    /\ \E t \in TypedOutcomes(subs[doc]) :
          subs' = [subs EXCEPT ![doc] =
                     [DocObserve([subs[doc] EXCEPT !.calls = <<>>, !.raised = FALSE,
                                                  !.typed = t], doc)
                         EXCEPT !.op = "observe"]]
    /\ UNCHANGED <<ycells, ymeta, ystate, uuid, nh, txn, calls, warnings, gen, ggen, last, ret, yu, yb>>

\* unobserve() on the notebook or on the text document (ybasedoc.py lines
\* 210-218).
DUnobserve(doc) ==
    /\ \E t \in TypedOutcomes(subs[doc]) :
          subs' = [subs EXCEPT ![doc] =
                     [BaseUnobserve([subs[doc] EXCEPT !.calls = <<>>, !.raised = FALSE,
                                                     !.typed = t])
                         EXCEPT !.op = "unobserve"]]
    /\ UNCHANGED <<ycells, ymeta, ystate, uuid, nh, txn, calls, warnings, gen, ggen, last, ret, yu, yb>>

\* The code points of the strings: a, e-acute, e-grave, i-tilde (which shares
\* its last byte with e-acute), two three-byte characters that differ in
\* their last byte, and two four-byte characters (U+1F600, U+1F601) that
\* differ in their last byte.
CodePoints == {97, 233, 232, 297, 8364, 8365, 128512, 128513}
MaxChars == 2
\* The longer strings are drawn from the characters that share a lead byte
\* and one three-byte character.
LongCodePoints == {233, 232, 8364}
\* The strings UTF-8 cannot encode: the surrogate U+D800, alone and after a
\* character.
SurrogateStrings == {<<55296>>, <<97, 55296>>}
Strings == UNION {[1..n -> CodePoints] : n \in 0..MaxChars}
               \cup [1..(MaxChars + 1) -> LongCodePoints]
               \cup SurrogateStrings

NextText ==
    \/ \E s \in Strings : USet(s)
    \/ UGet

SpecText == Init /\ [][NextText]_vars

\* ------------------------------------------------------------------ unknown opcode tags
\* set on strings of one- to three-byte characters, with the opcodes of
\* SequenceMatcher and with one opcode of unknown tag among them.
ForeignStrings == UNION {[1..n -> LongCodePoints \cup {97}] : n \in 0..MaxChars}

NextForeign ==
    \/ \E s \in ForeignStrings : USet(s)
    \/ \E s \in ForeignStrings : USetForeign(s)

SpecForeign == Init /\ [][NextForeign]_vars

\* ------------------------------------------------------------------ YBlob specification
\* The contents a caller sets: b"", b"0" and b"01".
Blobs == {<<>>, <<48>>, <<48, 49>>}

NextBlob ==
    \/ \E v \in Blobs : BSet(v)
    \/ BGet
    \/ BSetGot
    \/ \E v \in BOOLEAN : BSetDirty(v)
    \/ \E kv \in BlobStateKeys : BSetStateKey(kv[1], kv[2])
    \/ BObserve
    \/ BUnobserve

SpecBlob == Init /\ [][NextBlob]_vars

\* ------------------------------------------------------------------ the state map
\* The reconciliation calls of the three documents, with callers that write the
\* dirty flag and the hash.
StateSnapshots ==
    {Snapshot(l, Full45) : l \in DistinctLists({CodeCell("A", "a"), MdCell("B", "a")}, MaxTxnCells)}
StateStrings == {<<>>, <<97>>}
StateBlobs == {<<>>, <<48>>}

NextState ==
    \/ \E v \in StateSnapshots : Set(v)
    \/ \E v \in StateSnapshots : ASetStart(v)
    \/ ASetStep
    \/ SetStateKey("dirty", "true")
    \/ SetStateKey("hash", "h")
    \/ \E s \in StateStrings : USet(s)
    \/ \E v \in StateBlobs : BSet(v)
    \/ BSetDirty(TRUE)
    \/ BObserve
    \/ Settle

SpecState == Init /\ [][NextState]_vars

\* ------------------------------------------------------------------ observers
\* Every call that writes one of the roots of the three documents: the cell
\* array and what is nested in it, the notebook metadata, the state map, the
\* text and the blob; and the observe calls of the three documents.  The
\* snapshots come with no notebook-level key, as nbformat 4.5 and as nbformat
\* 4.4.  The notebook, the text, the blob and their subscription tables are
\* separate objects: a behaviour works on one of them and leaves the others as
\* they were constructed.
ObservePool == {CodeCell("A", "a"), CodeCell("A", "b"), MdCell("B", "a")}
ObserveSnapshots ==
    {Snapshot(l, nb) : l \in DistinctLists(ObservePool, MaxTxnCells),
                       nb \in {CellsOnly, Full45, Full44}}

NotebookFresh == ycells = <<>> /\ ymeta = <<>> /\ ystate = <<>> /\ last = NoCall
TablesFresh == \A d \in DOMAIN subs : subs[d] = NewSubscriptions(d)
OnNotebook == yu = NewYUnicode /\ yb = NewYBlob /\ TablesFresh
OnText == NotebookFresh /\ yb = NewYBlob /\ TablesFresh
OnBlob == NotebookFresh /\ yu = NewYUnicode /\ TablesFresh
OnTables == NotebookFresh /\ yu = NewYUnicode /\ yb = NewYBlob

NextObserve ==
    \/ OnNotebook /\ \E v \in ObserveSnapshots : Set(v)
    \/ OnNotebook /\ AppendCell(MdCell("B", "a"), MaxTxnCells)
    \/ OnNotebook /\ \E i \in 1..MaxTxnCells : SetCell(i, CodeCell("A", "b"))
    \/ OnNotebook /\ SetStateKey("hash", "h")
    \/ OnNotebook /\ Settle
    \/ OnText /\ \E s \in StateStrings : USet(s)
    \/ OnBlob /\ \E v \in StateBlobs : BSet(v)
    \/ OnBlob /\ BSetDirty(TRUE)
    \/ OnBlob /\ \E kv \in BlobStateKeys : BSetStateKey(kv[1], kv[2])
    \/ OnBlob /\ BObserve
    \/ OnTables /\ \E doc \in {"notebook", "text"} : DObserve(doc)
    \/ OnTables /\ \E doc \in {"notebook", "text"} : DUnobserve(doc)

SpecObserve == Init /\ [][NextObserve]_vars

\* ------------------------------------------------------------------ refused updates
\* set on lists of cells whose granular update is refused: a code cell A whose
\* outputs become a stream output, a markdown cell A that becomes a code cell
\* (the outputs key is added), with other cells B and C around them.  A list may
\* hold the same id twice.
RefusePool ==
    {CodeCell("A", "a"), [CodeCell("A", "b") EXCEPT !["outputs"] = <<StreamOutput>>],
     MdCell("A", "a"), CodeCell("B", "a"), CodeCell("C", "a")}
RefuseSnapshots ==
    {Snapshot(l, Full45) : l \in UNION {[1..k -> RefusePool] : k \in 0..MaxCells}}

NextRefuse ==
    \/ \E v \in RefuseSnapshots : Set(v)
    \/ Settle

SpecRefuse == Init /\ [][NextRefuse]_vars

\* ------------------------------------------------------------------ _update_cell
\* set on one cell A in every variant of SpecFields, with the source "ab", which
\* is similar to "a", and as a markdown cell that
\* carries an outputs list, which create_ycell stores as a plain list and not
\* as an Array; as nbformat 4.5 and 4.4.
UpdateCells ==
    FieldCells \cup {[CodeCell("A", "a") EXCEPT !["source"] = "ab"],
                     DictPut(MdCell("A", "a"), "outputs", <<>>),
                     DictPut(MdCell("A", "a"), "outputs", <<ExecuteResult>>),
                     DictPut(MdCell("A", "b"), "outputs", <<StreamOutput>>)}
UpdateSnapshots == {Snapshot(<<c>>, nb) : c \in UpdateCells, nb \in {Full45, Full44}}

NextUpdate ==
    \/ \E v \in UpdateSnapshots : Set(v)
    \/ Settle

SpecUpdate == Init /\ [][NextUpdate]_vars

\* ------------------------------------------------------------------ the passes of _set
\* aset, resumed checkpoint by checkpoint, on the snapshots of SpecRefuse: a
\* list that repeats an id on an empty array leaves an array with a duplicated id.
NextSteps ==
    \/ \E v \in RefuseSnapshots : ASetStart(v)
    \/ ASetStep
    \/ Settle

SpecSteps == Init /\ [][NextSteps]_vars

\* ------------------------------------------------------------------ aset under a fair event loop
\* aset on the snapshots of SpecIds, which may repeat an id.  The event loop
\* resumes a task that awaits a checkpoint (line 436): ASetStep is weakly fair.
NextLive ==
    \/ \E v \in IdSnapshots : ASetStart(v)
    \/ ASetStep
    \/ Settle

SpecLive == Init /\ [][NextLive]_vars /\ WF_vars(ASetStep)

\* ------------------------------------------------------------------ claims
\* What the history of the last call says.
Desired == last.arg["cells"]
\* set has just returned: nothing was called since.
SetReturned == last.op \in {"set", "setgot"} /\ ret = NoVal
LiveId(k) == IdOf(ycells[k].d)
PreId(k) == IdOf(last.pre[k].d)

DistinctNonEmptyIds(cells) ==
    /\ \A a \in 1..Len(cells) : IdOf(cells[a]) \notin {NoneId, ""}
    /\ \A a, b \in 1..Len(cells) : a # b => IdOf(cells[a]) # IdOf(cells[b])

HasDuplicateIds(ys) ==
    \E a, b \in 1..Len(ys) : a # b /\ IdOf(ys[a].d) = IdOf(ys[b].d)

\* The index of the first live cell with this id before the call, 0 if none.
FirstPos(id) ==
    IF \E p \in 1..Len(last.pre) : PreId(p) = id
    THEN CHOOSE p \in 1..Len(last.pre) :
            PreId(p) = id /\ \A q \in 1..(p - 1) : PreId(q) # id
    ELSE 0

\* The live array reads back the desired ids, index by index.
ReadsBackDesiredIds ==
    /\ Len(ycells) = Len(Desired)
    /\ \A k \in 1..Len(Desired) : LiveId(k) = IdOf(Desired[k])

\* C1 as stated: for every prior live array and every desired snapshot whose cells
\* carry pairwise-distinct non-empty ids, when set returns the live array has as
\* many cells as the desired list and the same id at every index.
C1_AsStated ==
    (SetReturned /\ DistinctNonEmptyIds(Desired)) => ReadsBackDesiredIds

\* C1 amended: the same, for a desired list that is not empty (an empty list is
\* replaced by one default cell).
C1_DesiredIdsReadBack ==
    (SetReturned /\ Desired # <<>> /\ DistinctNonEmptyIds(Desired)) => ReadsBackDesiredIds

\* A set of three distinct cells on a live array that held a duplicated id, the
\* duplicated id being one of the three.
C1_Witness ==
    /\ last.op = "set"
    /\ Len(Desired) = 3
    /\ DistinctNonEmptyIds(Desired)
    /\ \E a, b \in 1..Len(last.pre) :
          /\ a # b /\ PreId(a) = PreId(b)
          /\ \E k \in 1..3 : IdOf(Desired[k]) = PreId(a)
    /\ ReadsBackDesiredIds

\* Desired cell k has the content of the first live cell with its id.
Unchanged(k) ==
    /\ FirstPos(IdOf(Desired[k])) # 0
    /\ CellEq(Desired[k], cell_to_py(last.pre[FirstPos(IdOf(Desired[k]))], last.premeta))

\* Desired cell k precedes, in the live array before the call, every retained
\* cell that follows it in the desired list.
InPlaceWhenReached(k) ==
    \A j \in (k + 1)..Len(Desired) :
        IdOf(Desired[j]) \in last.retained
            => FirstPos(IdOf(Desired[k])) < FirstPos(IdOf(Desired[j]))

\* C6 as stated: a set that reorders unchanged cells leaves no duplicated id and
\* every unchanged cell keeps its live handle (none is deleted and re-created).
C6_AsStated ==
    (SetReturned /\ Desired # <<>> /\ DistinctNonEmptyIds(Desired)) =>
        /\ ~HasDuplicateIds(ycells)
        /\ \A k \in 1..Len(Desired) :
              Unchanged(k) => k <= Len(ycells) /\ ycells[k].h = FirstPos(IdOf(Desired[k]))

\* C6 amended: the result has no duplicated id and reads back the desired ids
\* with each unchanged cell's content; an unchanged cell keeps its live handle
\* exactly when it precedes, in the live array, every retained cell desired
\* after it, and is otherwise deleted and re-created under a new handle.
C6_ReorderRecreatesMovedCells ==
    (SetReturned /\ Desired # <<>> /\ DistinctNonEmptyIds(Desired)) =>
        /\ ~HasDuplicateIds(ycells)
        /\ ReadsBackDesiredIds
        /\ \A k \in 1..Len(Desired) :
              Unchanged(k) =>
                /\ CellEq(cell_to_py(ycells[k], ymeta), Desired[k])
                /\ IF InPlaceWhenReached(k)
                   THEN ycells[k].h = FirstPos(IdOf(Desired[k]))
                   ELSE ycells[k].h > Len(last.pre)

\* [A, B, C] set to [C, B, A] with every cell's content unchanged.
C6_Witness ==
    /\ last.op = "set"
    /\ Len(last.pre) = 3 /\ Len(Desired) = 3
    /\ ~HasDuplicateIds(last.pre)
    /\ \A k \in 1..3 : Unchanged(k) /\ IdOf(Desired[k]) = PreId(4 - k)
    /\ ycells[3].h = 1 /\ ycells[1].h > 3 /\ ycells[2].h > 3

\* The callbacks of the last call on the cells topic.
CellsCalls == SelectSeq(calls, LAMBDA c : c.topic = "cells")
ArrayOps == IF CellsCalls = <<>> THEN <<>> ELSE CellsCalls[1].arr

\* The retained ids come in the desired list in the order their (first) live
\* cells had before the call.
RetainedInOrder ==
    \A i, j \in 1..Len(Desired) :
        (i < j /\ IdOf(Desired[i]) \in last.retained /\ IdOf(Desired[j]) \in last.retained)
            => FirstPos(IdOf(Desired[i])) < FirstPos(IdOf(Desired[j]))

\* C7: when the retained cells keep their relative order, set deletes or
\* re-creates none of them: every array operation is the removal of a cell that
\* is not a retained one or the insertion of a new cell, in a single cells event.
C7_RetainedInOrderUntouched ==
    (SetReturned /\ RetainedInOrder) =>
        /\ \A id \in last.retained :
              \E k \in 1..Len(ycells) : LiveId(k) = id /\ ycells[k].h = FirstPos(id)
        /\ \A n \in 1..Len(ArrayOps) :
              LET op == ArrayOps[n] IN
              IF op[1] = "delete"
              THEN op[2] <= Len(last.pre)
                   /\ ~(PreId(op[2]) \in last.retained /\ FirstPos(PreId(op[2])) = op[2])
              ELSE op[2] > Len(last.pre)
                   /\ \A k \in 1..Len(ycells) :
                         ycells[k].h = op[2] => LiveId(k) \notin last.retained
        /\ Len(CellsCalls) <= 1
        /\ (ycells # last.pre => Len(CellsCalls) = 1)

\* One cell removed and one inserted around a retained cell.
C7_Witness ==
    /\ last.op = "set"
    /\ RetainedInOrder
    /\ last.retained # {}
    /\ \E n, m \in 1..Len(ArrayOps) : ArrayOps[n][1] = "delete" /\ ArrayOps[m][1] = "insert"
    /\ Len(CellsCalls) = 1

\* get() was called right after set(v) returned.
GetAfterSet == last.op = "set" /\ ret # NoVal

\* A snapshot of nbformat 4.5 whose cells have distinct ids and carry metadata
\* (code cells: outputs and execution_count too) and whose metadata carries
\* kernelspec and language_info.
Complete45(v) ==
    /\ {"nbformat", "nbformat_minor", "metadata"} \subseteq DOMAIN v
    /\ v["nbformat"] = PyInt(4) /\ v["nbformat_minor"] = PyInt(5)
    /\ {"kernelspec", "language_info"} \subseteq DOMAIN v["metadata"]
    /\ DistinctNonEmptyIds(v["cells"])
    /\ \A k \in 1..Len(v["cells"]) :
          LET c == v["cells"][k] IN
          /\ "metadata" \in DOMAIN c
          /\ c["cell_type"] = "code" => {"outputs", "execution_count"} \subseteq DOMAIN c

\* C5 as stated: for every prior document state and every such snapshot v,
\* get() after set(v) returns v, integers as integers.
C5_AsStated == (GetAfterSet /\ Complete45(last.arg)) => ret = last.arg

\* C5 amended: the same for a snapshot whose cell list is not empty.
C5_GetReturnsWhatWasSet ==
    (GetAfterSet /\ Complete45(last.arg) /\ last.arg["cells"] # <<>>) => ret = last.arg

\* get() after a set that patched one cell granularly, rebuilt another and
\* moved a third, with an integer execution_count and an integer in the metadata.
C5_Witness ==
    /\ GetAfterSet /\ Complete45(last.arg) /\ Len(Desired) = 3
    /\ \E k \in 1..3 : IdOf(Desired[k]) \in last.retained /\ ~Unchanged(k)
    /\ \E k \in 1..3 : FirstPos(IdOf(Desired[k])) # 0 /\ IdOf(Desired[k]) \notin last.retained
    /\ \E k \in 1..3 : Unchanged(k) /\ ~InPlaceWhenReached(k)
    /\ \E k \in 1..3 : ret["cells"][k]["cell_type"] = "code"
                        /\ ret["cells"][k]["execution_count"] = PyInt(1)
    /\ ret["metadata"]["n"] = PyInt(7)
    /\ ret = last.arg

\* The meta map holds all three notebook-level keys (a set has populated it).
MetaPopulated(meta) == {"nbformat", "nbformat_minor", "metadata"} \subseteq DOMAIN meta

\* _cell_to_py strips cell ids under this meta (nbformat 4.0 to 4.4).
StripsIds(meta) == MetaInt(meta, "nbformat") = 4 /\ MetaInt(meta, "nbformat_minor") <= 4

DistinctLiveIds(ys) ==
    /\ \A a \in 1..Len(ys) : IdOf(ys[a].d) \notin {NoneId, ""}
    /\ ~HasDuplicateIds(ys)

\* set(get()) has just returned and neither call invoked an observer.
SilentRoundTrip == last.getcalls = <<>> /\ calls = <<>>

\* C2 as stated: in every reachable document state, set(get()) invokes no
\* observer callback on any topic.
C2_AsStated == (last.op = "setgot" /\ ret = NoVal) => SilentRoundTrip

\* C2 amended: set(get()) invokes no observer callback when the meta map is
\* populated, the notebook format is not 4.0 to 4.4, the state map holds no key
\* besides dirty, path and document_id, and the live array is not empty and has
\* pairwise distinct non-empty ids.
C2_RoundTripIsSilent ==
    (/\ last.op = "setgot" /\ ret = NoVal
     /\ MetaPopulated(last.premeta) /\ ~StripsIds(last.premeta)
     /\ DOMAIN last.prestate \subseteq KEPT_STATE_KEYS
     /\ last.getpre # <<>> /\ DistinctLiveIds(last.getpre))
        => SilentRoundTrip /\ ycells = last.getpre /\ ymeta = last.premeta

\* set(get()) on a populated two-cell document that holds a dirty flag and a
\* cell with a stream output.
C2_Witness ==
    /\ last.op = "setgot" /\ ret = NoVal
    /\ MetaPopulated(last.premeta) /\ ~StripsIds(last.premeta)
    /\ "dirty" \in DOMAIN last.prestate /\ "hash" \notin DOMAIN last.prestate
    /\ Len(last.getpre) = 2 /\ DistinctLiveIds(last.getpre)
    /\ \E k \in 1..2 : HasStream(DictGet(last.getpre[k].d, "outputs", <<>>))
    /\ SilentRoundTrip

\* The notebook-level keys of the snapshot (with the defaults _set gives the
\* missing ones) equal the stored ones, and the state map holds no key _set drops.
NotebookLevelUnchanged ==
    LET v == last.arg
        meta == last.premeta
    IN  /\ MetaPopulated(meta)
        /\ NumEq(meta["nbformat"], DictGet(v, "nbformat", PyInt(NBFORMAT_MAJOR_VERSION)))
        /\ NumEq(meta["nbformat_minor"],
                 DictGet(v, "nbformat_minor", PyInt(NBFORMAT_MINOR_VERSION)))
        /\ MetadataEq(DictGet(v, "metadata", <<>>), meta["metadata"])
        /\ DOMAIN last.prestate \subseteq KEPT_STATE_KEYS

\* The keys in which the desired cell k differs from the plain view of the
\* live cell with its id.
ChangedKeys(k) ==
    LET new == Desired[k]
        old == cell_to_py(last.pre[FirstPos(IdOf(new))], last.premeta)
    IN  {key \in DOMAIN new \cup DOMAIN old :
            \/ key \notin DOMAIN new
            \/ key \notin DOMAIN old
            \/ ~ValEq(key, old[key], new[key])}

\* A set on a one-cell document whose only change is in fields of that cell
\* other than outputs.
SingleCellFieldChange ==
    /\ SetReturned
    /\ Len(last.pre) = 1 /\ Len(Desired) = 1
    /\ IdOf(Desired[1]) \notin {NoneId, ""} /\ IdOf(Desired[1]) = PreId(1)
    /\ NotebookLevelUnchanged
    /\ ChangedKeys(1) # {}
    /\ "outputs" \notin ChangedKeys(1)

\* C8: starting from a single cell, a set that changes only scalar, source or
\* metadata fields of the cell invokes the observer exactly once, on the cells
\* topic, with events on handles of that cell only and none on the cell array.
C8_SingleCellPatchIsNarrow ==
    SingleCellFieldChange =>
        /\ Len(calls) = 1
        /\ calls[1].topic = "cells"
        /\ calls[1].arr = <<>>
        /\ calls[1].tg # {}
        /\ \A t \in calls[1].tg : t[1] = last.pre[1].h
        /\ Len(ycells) = 1 /\ ycells[1].h = last.pre[1].h

\* The source of the single cell changed from "a" to "b": one event on its Text.
C8_Witness ==
    /\ SingleCellFieldChange
    /\ ChangedKeys(1) = {"source"}
    /\ Len(calls) = 1
    /\ calls[1].tg = {<<last.pre[1].h, "source">>}
    /\ ycells[1].d["source"] = "b"

\* The desired cell k matches a live cell by id and changes its outputs to a
\* list with a stream entry.
OutputsChangedToStream(k) ==
    LET new == Desired[k] IN
    /\ FirstPos(IdOf(new)) # 0
    /\ IdOf(new) \notin {NoneId, ""}
    /\ "outputs" \in DOMAIN new
    /\ HasStream(new["outputs"])
    /\ "outputs" \in ChangedKeys(k)

\* C9: a set that changes a cell's outputs to a list with a stream entry
\* replaces the whole cell: the cells event carries the removal of the live cell
\* and the insertion of a new one on the cell array itself.
C9_StreamOutputsReplaceCell ==
    \A k \in 1..(IF SetReturned THEN Len(Desired) ELSE 0) :
        OutputsChangedToStream(k) =>
            /\ IdOf(Desired[k]) \notin last.retained
            /\ Len(CellsCalls) = 1
            /\ \E n \in 1..Len(ArrayOps) : ArrayOps[n][1] = "delete"
            /\ \E n \in 1..Len(ArrayOps) :
                  ArrayOps[n] = <<"insert", ycells[k].h>> /\ ycells[k].h > Len(last.pre)
            /\ ycells[k].d["outputs"] = Desired[k]["outputs"]

\* The single code cell with no output gets a stream output.
C9_Witness ==
    /\ SetReturned
    /\ Len(last.pre) = 1 /\ Len(Desired) = 1
    /\ "outputs" \in DOMAIN last.pre[1].d /\ last.pre[1].d["outputs"] = <<>>
    /\ OutputsChangedToStream(1)
    /\ NotebookLevelUnchanged
    /\ ArrayOps = <<<<"delete", 1>>, <<"insert", 2>>>>

\* The document as it was when the last call started, about to run the
\* synchronous driver on the same argument.
StartOfLastCall ==
    [ycells |-> last.pre, ymeta |-> last.premeta, ystate |-> last.prestate,
     uuid |-> last.preuuid, nh |-> Len(last.pre) + 1, txn |-> NoTxn,
     calls |-> <<>>, warnings |-> <<>>, g |-> IdleFrame, q |-> IdleGetFrame,
     order |-> KeyOrder]

\* The documents set can end with: one for every order in which the refused
\* updates of the call iterate their key sets.
SyncSets == RunSet([StartOfLastCall EXCEPT !.g = NewFrame(last.arg)])
ASetReturned == last.op = "aset" /\ gen.pc \in {"done", "raised"}
\* C3: after YUnicode.set(s) returns, get() equals s, whichever path was
\* taken (granular replay, overlap fallback or hard replace), and the Text
\* holds the UTF-8 encoding of s.  The call returns for every s that UTF-8
\* can encode; an s that holds a surrogate makes it raise before any write.
C3_TextRoundTrip ==
    /\ yu.op = "set" => (yu.raised <=> ~Encodable(yu.arg))
    /\ (yu.op = "set" /\ ~yu.raised) => yu.src = Encode(yu.arg)
    /\ (yu.op = "set" /\ yu.raised) => yu.src = yu.pre /\ yu.writes = <<>>
    /\ (yu.op = "set" /\ ~yu.raised /\ yu.got # NoStr) => yu.got = yu.arg

\* e-acute followed by a euro sign set to e-grave followed by a euro sign: the
\* one-byte replace is widened to the whole character and replayed granularly.
C3_Witness ==
    /\ yu.op = "set" /\ yu.got # NoStr
    /\ yu.pre = Encode(<<233, 8364>>) /\ yu.arg = <<232, 8364>>
    /\ yu.path = "granular"
    /\ yu.writes = <<<<"delete", 0, 2>>, <<"insert", 0, <<195, 168>>>>>>
    /\ yu.got = yu.arg

\* C4: YUnicode.set(v) with v equal to the current content opens no
\* transaction, writes nothing to the Text and invokes no observer callback.
C4_SetSameIsSilent ==
    (yu.op = "set" /\ yu.arg = Decode(yu.pre)) =>
        /\ ~yu.opened
        /\ yu.writes = <<>>
        /\ yu.calls = <<>>
        /\ yu.src = yu.pre

\* A three-character text with multi-byte characters set to itself.
C4_Witness ==
    /\ yu.op = "set"
    /\ yu.pre = Encode(<<232, 233, 8364>>) /\ yu.arg = <<232, 233, 8364>>
    /\ yu.path = "noop" /\ yu.calls = <<>> /\ yu.src = yu.pre

\* The cells of a live array as plain dicts, handles aside.
Content(ys) == [k \in 1..Len(ys) |-> ys[k].d]

ASetCancelled == last.op = "cancelled"

\* C11: when aset is cancelled at a checkpoint, the cell array is the one the
\* call found (handles included) or holds the content the completed
\* reconciliation would have produced: never an array with only part of the
\* deletions, moves and insertions applied.
C11_AsStated ==
    ASetCancelled =>
        \/ ycells = last.pre
        \/ \E S \in SyncSets : Content(ycells) = Content(S.ycells)

\* aset([C, B]) on the live array [A, B, C] is cancelled after the deletion
\* pass removed A and before the positional pass moved C: [B, C] is left and
\* the observer is told of the deletion.
C11_Witness ==
    /\ ASetCancelled
    /\ Len(last.pre) = 3 /\ Len(Desired) = 2
    /\ Len(ycells) = 2
    /\ ycells = SubSeq(last.pre, 2, 3)
    /\ \A S \in SyncSets : Content(ycells) # Content(S.ycells)
    /\ Len(CellsCalls) = 1
    /\ txn = NoTxn

ASetSuspended == last.op = "aset" /\ gen.pc \notin {"idle", "done", "raised", "cancelled"}

DocumentUnchanged == ycells = last.pre /\ ymeta = last.premeta /\ ystate = last.prestate

\* The callbacks of the call came from one transaction, one per topic at most.
OneBatch ==
    /\ \A a \in 1..Len(calls) : calls[a].first = 1
    /\ \A a, b \in 1..Len(calls) : calls[a].topic = calls[b].topic => a = b

\* C12 as stated: one transaction per set or aset call, at most one callback
\* per topic, none before the call's last write, and none when the call left
\* the cells, the meta map and the state map as they were.
C12_AsStated ==
    /\ ASetSuspended => calls = <<>>
    /\ (SetReturned \/ ASetReturned) =>
          /\ txn = NoTxn
          /\ OneBatch
          /\ DocumentUnchanged => calls = <<>>

\* set was called a second time with a snapshot of one cell and no metadata
\* key: the cells, the meta map and the state map are what they were, and the
\* meta callback ran, because the metadata was stored again.
C12_Witness ==
    /\ SetReturned
    /\ DocumentUnchanged
    /\ ~StripsIds(last.premeta)
    /\ Len(ycells) = 1
    /\ "metadata" \notin DOMAIN last.arg
    /\ Len(calls) = 1 /\ calls[1].topic = "meta" /\ calls[1].keys = {"metadata"}

\* append_cell or set_cell has just returned.
CellWritten == last.op \in {"append", "set_cell"} /\ ret = NoVal
\* The index the cell went to.
WrittenAt ==
    IF last.op = "append" THEN Len(ycells)
    ELSE CHOOSE i \in 1..Len(ycells) : ycells[i].h \notin {last.pre[k].h : k \in 1..Len(last.pre)}
\* The cells that were live before the call are where they were.
OthersUntouched ==
    IF last.op = "append" THEN SubSeq(ycells, 1, Len(ycells) - 1) = last.pre
    ELSE /\ Len(ycells) = Len(last.pre)
         /\ \A k \in (1..Len(ycells)) \ {WrittenAt} : ycells[k] = last.pre[k]
\* The live array get() leaves when it is called in the current state.
AfterGet == RunGet([Pack EXCEPT !.q = NewGetFrame(TRUE)]).ycells

\* C13 as stated: in every document state no two live cells have the same id.
C13_AsStated == ~HasDuplicateIds(ycells)

\* C13: when set or aset returns with a desired list of pairwise-distinct,
\* non-empty ids, no two live cells have the same id, whatever the array held
\* before; append_cell and set_cell store the cell with the id it was given and
\* leave the other live cells as they were, so the id is duplicated afterwards
\* when another live cell has it; unless the notebook format is 4.0 to 4.4,
\* get() leaves a live array in which two cells with the same non-empty id are
\* identical in content, and it leaves every cell whose id is the empty string
\* as it is, whatever other cells have that id.
C13_IdsUniqueAfterReconcile ==
    /\ ((SetReturned \/ ASetReturned) /\ DistinctNonEmptyIds(Desired)) =>
          ~HasDuplicateIds(ycells)
    /\ CellWritten =>
          /\ "id" \in DOMAIN last.arg => LiveId(WrittenAt) = last.arg["id"]
          /\ OthersUntouched
    /\ ~StripsIds(ymeta) =>
          \E after \in {AfterGet} :
             /\ Len(after) = Len(ycells)
             /\ \A a, b \in 1..Len(after) :
                   (IdOf(after[a].d) = IdOf(after[b].d) /\ IdOf(after[a].d) # "") =>
                      CellEq(cell_to_py(after[a], ymeta), cell_to_py(after[b], ymeta))
             /\ \A a \in 1..Len(ycells) : LiveId(a) = "" => after[a] = ycells[a]

\* set has replaced an array that held a duplicated id by two cells with
\* distinct ids, one of them the id that was duplicated.
C13_Witness ==
    /\ SetReturned
    /\ HasDuplicateIds(last.pre)
    /\ Len(Desired) = 2 /\ DistinctNonEmptyIds(Desired)
    /\ \E k \in 1..2 : IdOf(Desired[k]) = PreId(1)
    /\ Len(ycells) = 2 /\ ~HasDuplicateIds(ycells)

\* get() has just returned (in a specification without the asynchronous drivers).
GetReturned == ret # NoVal
GotCells == ret["cells"]
GetPreId(i) == IdOf(last.getpre[i].d)
GetPrePy(i) == cell_to_py(last.getpre[i], cast_all_nb(ymeta, "float", "int"))
\* The first live cell that had the id of cell i when get() was called.
FirstWithId(i) == CHOOSE j \in 1..i : GetPreId(j) = GetPreId(i) /\ \A k \in 1..(j - 1) : GetPreId(k) # GetPreId(i)
DiffersFromFirst(i) == FirstWithId(i) < i /\ ~CellEq(GetPrePy(i), GetPrePy(FirstWithId(i)))

\* Cell i was given a new id: it is in the live cell, in the returned list and
\* in a warning that names the old id, the new id and the differing fields.
Renamed(i) ==
    LET new_id == LiveId(i)
        cell == DictPut(GetPrePy(i), "id", new_id)
    IN  /\ new_id \notin {GetPreId(k) : k \in 1..Len(last.getpre)}
        /\ ycells[i] = [last.getpre[i] EXCEPT !.d = DictPut(@, "id", new_id)]
        /\ \E k \in 1..Len(GotCells) : GotCells[k] = cell
        /\ \E w \in 1..Len(warnings) :
              warnings[w] = [old_id |-> GetPreId(i), new_id |-> new_id,
                             fields |-> DifferingFields(cell, GetPrePy(FirstWithId(i)))]

\* get() called again right away returns the same list and writes nothing.
RepeatedGet == RunGet([Enter EXCEPT !.q = NewGetFrame(TRUE)])
RepeatedGetIsQuiet ==
    /\ RepeatedGet.q.val = ret
    /\ RepeatedGet.ycells = ycells
    /\ RepeatedGet.uuid = uuid
    /\ RepeatedGet.calls = <<>>
    /\ RepeatedGet.warnings = <<>>

\* C14 as stated: get() never returns two cells with the same id, every later
\* live cell that shares an id with an earlier one and differs from it is
\* renamed, and a repeated get() is quiet.
C14_AsStated ==
    GetReturned =>
       /\ \A a, b \in 1..Len(GotCells) :
             (a # b /\ "id" \in DOMAIN GotCells[a] /\ "id" \in DOMAIN GotCells[b])
                => GotCells[a]["id"] # GotCells[b]["id"]
       /\ \A i \in 1..Len(last.getpre) : DiffersFromFirst(i) => Renamed(i)
       /\ RepeatedGetIsQuiet

\* C14: unless the notebook format is 4.0 to 4.4, get() never returns two cells
\* with the same non-empty id; a later live cell whose non-empty id equals that
\* of an earlier cell and whose content differs from the first cell with that id
\* is returned with a new id, which is written to the live cell and named in a
\* warning with the old id and the differing fields (the id among them); a
\* repeated get() returns the same list and writes nothing.
C14_GetDeduplicates ==
    GetReturned =>
       /\ ~StripsIds(ymeta) =>
             /\ \A a, b \in 1..Len(GotCells) :
                   (a # b /\ IdOf(GotCells[a]) # "") => IdOf(GotCells[a]) # IdOf(GotCells[b])
             /\ \A i \in 1..Len(last.getpre) :
                   (GetPreId(i) # "" /\ DiffersFromFirst(i)) =>
                      Renamed(i)
             /\ \A w \in 1..Len(warnings) : "id" \in warnings[w].fields
       /\ RepeatedGetIsQuiet

\* get() met three live cells with the id A: the second differed from the first
\* and was renamed, the third was identical to the first and was left out.
C14_Witness ==
    /\ GetReturned
    /\ ~StripsIds(ymeta)
    /\ Len(last.getpre) = 3
    /\ \A i \in 1..3 : GetPreId(i) = "A"
    /\ DiffersFromFirst(2) /\ Renamed(2)
    /\ ~DiffersFromFirst(3)
    /\ Len(GotCells) = 2
    /\ Len(warnings) = 1
    /\ LiveId(3) = "A"

\* set was given a value UTF-8 can encode that is not the content of the text.
USetChanged == yu.op = "set" /\ Encodable(yu.arg) /\ Decode(yu.pre) # yu.arg
\* SequenceMatcher(a=old bytes, b=new bytes).ratio() >= 0.6.
RatioReached ==
    RatioAtLeast(SumSizes(get_matching_blocks(yu.pre, Encode(yu.arg))),
                 Len(yu.pre) + Len(Encode(yu.arg)), SIMILARITY_THREESHOLD_TENTHS)
UDelta == TextDelta(yu.pre, yu.writes)
\* [delete(all of old), insert(new)], each left out when it would be empty.
WholeReplaceDelta ==
    (IF yu.pre # <<>> THEN <<<<"delete", Len(yu.pre)>>>> ELSE <<>>)
    \o (IF yu.arg # <<>> THEN <<<<"insert", Encode(yu.arg)>>>> ELSE <<>>)

\* C15: for different strings whose similarity ratio over their UTF-8 bytes is
\* below 0.6, YUnicode.set emits exactly one source event, whose delta deletes
\* the whole old content and inserts the new one; the insert is left out when
\* the new string is empty, the delete when the old one is.
C15_DissimilarIsHardReplace ==
    (USetChanged /\ ~RatioReached) =>
        /\ yu.calls = <<"source">>
        /\ UDelta = WholeReplaceDelta
        /\ yu.src = Encode(yu.arg)

\* "a" followed by e-acute set to "a" followed by a euro sign: one byte in
\* seven matches, and the text is replaced whole although it starts the same.
C15_Witness ==
    /\ USetChanged /\ ~RatioReached
    /\ yu.pre = Encode(<<97, 233>>) /\ yu.arg = <<97, 8364>>
    /\ yu.path = "hard"
    /\ UDelta = <<<<"delete", 3>>, <<"insert", <<97, 226, 130, 172>>>>>>

\* The items of the old content after the last set, in their order.
UOldItems == SelectSeq(ItemsApply(NewItems(yu.pre), yu.writes), LAMBDA it : it.old)
UOpcodes == get_opcodes(yu.pre, Encode(yu.arg))
DeltaClasses == {UDelta[k][1] : k \in 1..Len(UDelta)}
\* Byte k of the old content (1-based) lies in an unchanged range.
InEqualRange(k) ==
    \E n \in 1..Len(UOpcodes) :
        UOpcodes[n][1] = "equal" /\ UOpcodes[n][2] < k /\ k <= UOpcodes[n][3]
\* The character of byte k lies wholly in one unchanged range.
CharInEqualRange(k) ==
    \E n \in 1..Len(UOpcodes) :
        /\ UOpcodes[n][1] = "equal"
        /\ UOpcodes[n][2] <= FixStart(yu.pre, k - 1)
        /\ FixEnd(yu.pre, k) <= UOpcodes[n][3]

\* C16 as stated: at ratio 0.6 or more the delta mixes more than one opcode
\* class and no byte of an unchanged range is deleted.
C16_AsStated ==
    (USetChanged /\ RatioReached) =>
        /\ Cardinality(DeltaClasses) > 1
        /\ \A k \in 1..Len(yu.pre) : InEqualRange(k) => ~UOldItems[k].del

\* C16: at ratio 0.6 or more, when no corrected range overlaps the preceding
\* non-equal one, the one source event retains every character of the old
\* content that lies wholly in an unchanged range; when one does, the delta
\* deletes the whole old content and inserts the new one.
C16_SimilarIsGranular ==
    (USetChanged /\ RatioReached) =>
        /\ yu.path \in {"granular", "overlap"}
        /\ yu.calls = <<"source">>
        /\ yu.path = "granular" =>
              \A k \in 1..Len(yu.pre) : CharInEqualRange(k) => ~UOldItems[k].del
        /\ yu.path = "overlap" => UDelta = WholeReplaceDelta

\* e-grave, e-acute, euro set to e-acute, euro: the first character is deleted
\* and the other two are retained, so the delta has the delete alone.
C16_Witness ==
    /\ USetChanged /\ RatioReached
    /\ yu.pre = Encode(<<232, 233, 8364>>) /\ yu.arg = <<233, 8364>>
    /\ yu.path = "granular"
    /\ ~UOldItems[3].del /\ ~UOldItems[7].del

\* Offset p (0-based) of the bytes is the start of a character or the end of
\* the data.
OnBoundary(data, p) ==
    p \in 0..Len(data) /\ (p = Len(data) \/ ~is_utf8_continuation_byte(data[p + 1]))

\* The opcodes of the last set with their ranges corrected (lines 95-98).
UFixed ==
    [n \in 1..Len(UOpcodes) |->
        <<UOpcodes[n][1],
          FixStart(yu.pre, UOpcodes[n][2]), FixEnd(yu.pre, UOpcodes[n][3]),
          FixStart(Encode(yu.arg), UOpcodes[n][4]), FixEnd(Encode(yu.arg), UOpcodes[n][5])>>]
\* A corrected range starts before the end of the preceding one, which is not
\* an equal.
RangesOverlap ==
    \E n \in 2..Len(UFixed) : UFixed[n][2] < UFixed[n - 1][3] /\ UFixed[n - 1][1] # "equal"

\* The Text is valid UTF-8 after each of the writes.
RECURSIVE DecodableThroughout(_, _)
DecodableThroughout(src, writes) ==
    IF writes = <<>> THEN TRUE
    ELSE LET w == Head(writes)
             next == IF w[1] = "delete" THEN TextDelete(src, w[2], w[2] + w[3])
                     ELSE TextInsert(src, w[2], w[3])
         IN  Decodable(next) /\ DecodableThroughout(next, Tail(writes))
HasMultiByte(data) == \E p \in 1..Len(data) : data[p] >= 128

\* C17: for strings with multi-byte characters, every range YUnicode.set
\* applies starts and ends on a character boundary of the old content and
\* inserts a slice that starts and ends on a character boundary of the new
\* content, so the text is valid UTF-8 after every write; and when a corrected
\* range overlaps the preceding non-equal corrected range nothing is applied
\* granularly: the content is cleared and fully re-inserted.
C17_RangesOnCharBoundaries ==
    (USetChanged /\ RatioReached /\ (HasMultiByte(yu.pre) \/ HasMultiByte(Encode(yu.arg)))) =>
        /\ ~yu.raised
        /\ DecodableThroughout(yu.pre, yu.writes)
        /\ RangesOverlap <=> yu.path = "overlap"
        /\ RangesOverlap => UDelta = WholeReplaceDelta
        /\ ~RangesOverlap =>
              /\ yu.path = "granular"
              /\ \A n \in 1..Len(UFixed) :
                    /\ OnBoundary(yu.pre, UFixed[n][2]) /\ OnBoundary(yu.pre, UFixed[n][3])
                    /\ OnBoundary(Encode(yu.arg), UFixed[n][4])
                    /\ OnBoundary(Encode(yu.arg), UFixed[n][5])
              /\ yu.writes =
                    Replay(UFixed, 1, Encode(yu.arg), 0,
                           [src |-> yu.pre, writes |-> <<>>, ok |-> TRUE]).writes

\* e-acute set to e-grave, i-tilde: the replace of the second byte and the
\* insert that follows are both widened to the whole first character, they
\* overlap, and the text is cleared and re-inserted.
C17_Witness ==
    /\ USetChanged /\ RatioReached
    /\ yu.pre = Encode(<<233>>) /\ yu.arg = <<232, 297>>
    /\ RangesOverlap
    /\ yu.path = "overlap"
    /\ yu.writes = <<<<"delete", 0, 2>>, <<"insert", 0, <<195, 168, 196, 169>>>>>>

\* YBlob.set has just returned and was given the content the blob had.
BSetSame == yb.op \in {"set", "setgot"} /\ yb.arg = BlobGet(yb.pre)

\* C20 as stated: YBlob.set(v) with v equal to the current content, set(get())
\* on a blob that was never set included, invokes no observer callback.
C20_AsStated == BSetSame => yb.calls = <<>>

\* set(get()) on a blob that was never set, with an observer subscribed: the
\* bytes key is added with b"" and the observer is called on the source topic.
C20_Witness ==
    /\ yb.op = "setgot"
    /\ yb.pre = <<>> /\ yb.arg = <<>>
    /\ yb.ysource = [bytes |-> <<>>]
    /\ Len(yb.calls) = 1
    /\ yb.calls[1].topic = "source"

\* The state map without the keys _set does not keep.
KeptOf(state) == [k \in DOMAIN state \cap KEPT_STATE_KEYS |-> state[k]]
StateCalls == SelectSeq(calls, LAMBDA c : c.topic = "state")
BlobStateUntouched ==
    /\ yb.ystate = yb.prestate
    /\ \A k \in 1..Len(yb.calls) : yb.calls[k].topic # "state"
TextStateUntouched == \A k \in 1..Len(yu.calls) : yu.calls[k] # "state"

\* C18 as stated: no reconciliation call adds, changes or removes a key of the
\* state map.
C18_AsStated ==
    /\ (SetReturned \/ ASetReturned \/ ASetSuspended) =>
          ystate = last.prestate /\ StateCalls = <<>>
    /\ yu.op = "set" => TextStateUntouched
    /\ yb.op = "set" => BlobStateUntouched

\* C18: YNotebook.set and aset add no key to the state map and change none,
\* and when they return the map holds the keys dirty, path and document_id it
\* held, with their values, and no other key: every other key was deleted (at
\* the end of the call, in its transaction) and the state observers were told;
\* YUnicode.set and YBlob.set leave the state map as it was.
C18_ReconcilersKeepThreeKeys ==
    /\ (SetReturned \/ ASetReturned) =>
          /\ ystate = KeptOf(last.prestate)
          /\ (ystate = last.prestate) <=> (StateCalls = <<>>)
          /\ \A k \in 1..Len(StateCalls) :
                StateCalls[k].keys = DOMAIN last.prestate \ KEPT_STATE_KEYS
    /\ ASetSuspended => ystate = last.prestate /\ StateCalls = <<>>
    /\ yu.op = "set" => TextStateUntouched
    /\ yb.op = "set" => BlobStateUntouched

\* aset has returned on a document whose state map held dirty and hash: dirty
\* is still there, hash was deleted and the state observer was told.
C18_Witness ==
    /\ ASetReturned
    /\ DOMAIN last.prestate = {"dirty", "hash"}
    /\ ystate = [dirty |-> "true"]
    /\ Len(StateCalls) = 1
    /\ StateCalls[1].keys = {"hash"}

\* A set call on the blob whose value is not the content held before.
BSetDifferent == yb.op \in {"set", "setgot"} /\ yb.arg # BlobGet(yb.pre)
BlobObserved == yb.observers # {}
BlobGetIsLastSet ==
    yb.op = "get" => yb.got = (IF yb.lastset = NoBytes THEN <<>> ELSE yb.lastset)
OnceWithSourceTopic ==
    /\ Len(yb.calls) = 1
    /\ yb.calls[1].topic = "source"
    /\ yb.calls[1].keys = {"bytes"}
    /\ yb.calls[1].change.new = yb.arg

\* C21 as stated: get() returns b"" before any set and the last value set
\* after one; a set with a different value invokes the observer once, with
\* topic source, the previous value as old value and the new one as new value.
C21_AsStated ==
    /\ BlobGetIsLastSet
    /\ (BSetDifferent /\ BlobObserved) =>
          /\ OnceWithSourceTopic
          /\ yb.calls[1].change.old = {BlobGet(yb.pre)}

\* C21: get() returns b"" before any set and the last value set after one; a
\* set with a different value invokes the registered callback exactly once,
\* with topic source and the new value as new value; the event carries the
\* previous value as old value when a value had been set, and no old value
\* (the key is added) on the first set.
C21_BlobGetSetObserve ==
    /\ BlobGetIsLastSet
    /\ (BSetDifferent /\ BlobObserved) =>
          /\ OnceWithSourceTopic
          /\ IF "bytes" \in DOMAIN yb.pre
             THEN /\ yb.calls[1].change.action = "update"
                  /\ yb.calls[1].change.old = {yb.pre["bytes"]}
             ELSE /\ yb.calls[1].change.action = "add"
                  /\ yb.calls[1].change.old = {}
    /\ (BSetDifferent /\ ~BlobObserved) => yb.calls = <<>>

\* b"01" was set over b"0" with an observer registered: one source event with
\* old value b"0" and new value b"01".
C21_Witness ==
    /\ yb.op = "set" /\ BlobObserved
    /\ yb.pre = [bytes |-> <<48>>] /\ yb.arg = <<48, 49>>
    /\ OnceWithSourceTopic
    /\ yb.calls[1].change.old = {<<48>>}
    /\ yb.ysource = [bytes |-> <<48, 49>>]

\* The callbacks of the last notebook call with a topic.
TopicCalls(topic) == SelectSeq(calls, LAMBDA c : c.topic = topic)
NotebookCallDone ==
    last.op \in {"set", "append", "set_cell", "state"} /\ ret = NoVal /\ ~txn.open
\* A callback reports writes to the root of its topic and to no other root.
ReportsOwnRoot(c) ==
    CASE c.topic = "state" -> c.keys # {} /\ c.arr = <<>> /\ c.tg = {}
      [] c.topic = "meta" -> c.keys # {} /\ c.arr = <<>> /\ c.tg = {}
      [] c.topic = "cells" -> (c.arr # <<>> \/ c.tg # {}) /\ c.keys = {}
      [] OTHER -> FALSE
ChangedRootsCalledOnce ==
    /\ ystate # last.prestate => Len(TopicCalls("state")) = 1
    /\ ymeta # last.premeta => Len(TopicCalls("meta")) = 1
    /\ ycells # last.pre => Len(TopicCalls("cells")) = 1
\* set found the metadata of the snapshot equal to the stored one at line 406,
\* where the snapshot's has not been given its defaults yet.
MetadataFoundEqual ==
    /\ "metadata" \in DOMAIN last.premeta
    /\ MetadataEq(DictGet(last.arg, "metadata", <<>>), last.premeta["metadata"])
\* A root the call did not write gives no callback.  A write of the value the
\* root holds is a write: the state setter, the id of a retained cell under
\* nbformat 4.0 to 4.4, and the metadata that set stores again when the
\* snapshot's differs from the stored one before the defaults are added.
UnwrittenRootsNotCalled ==
    /\ (ystate = last.prestate /\ last.op # "state") => TopicCalls("state") = <<>>
    /\ (ymeta = last.premeta /\ (last.op = "set" => MetadataFoundEqual)) =>
          TopicCalls("meta") = <<>>
    /\ (ycells = last.pre /\ ~StripsIds(last.premeta)) => TopicCalls("cells") = <<>>
\* Every observer that the observe calls registered on a shared type calls
\* back with the topic of the root it is registered on.
ObserversBoundToRoot ==
    \A o \in yb.observers \cup UNION {subs[d].observers : d \in DOMAIN subs} :
        o.topic = o.type

EmptySet ==
    last.op = "set" /\ last.arg["cells"] = <<>> /\ "metadata" \notin DOMAIN last.arg
DefaultMetadata ==
    [language_info |-> "{name:''}", kernelspec |-> "{name:'',display_name:''}"]
FreshId == Uuid(last.preuuid + 1)
OneDefaultCell ==
    /\ Len(ycells) = 1
    /\ uuid = last.preuuid + 1
    /\ \A k \in 1..Len(last.pre) : PreId(k) # FreshId
    /\ ycells[1].d = [cell_type |-> "code", execution_count |-> None,
                      metadata |-> "{trusted}", outputs |-> <<>>, source |-> "",
                      id |-> FreshId, execution_state |-> "idle"]
    /\ ycells[1].outputs_kind = "Array"
    /\ \A k \in 1..Len(last.pre) : last.pre[k].h # ycells[1].h

\* C23: a set whose snapshot has an empty cell list and no metadata leaves
\* exactly one cell, a new code cell with empty source, no outputs, metadata
\* trusted and a newly generated id, and stores the metadata map of the
\* kernelspec and language_info defaults, which get() then returns.
C23_EmptySetPopulatesDefaults ==
    EmptySet =>
        /\ OneDefaultCell
        /\ "metadata" \in DOMAIN ymeta /\ ymeta["metadata"] = DefaultMetadata
        /\ ret # NoVal =>
              /\ ret["metadata"] = DefaultMetadata
              /\ Len(ret["cells"]) = 1
              /\ ret["cells"][1] = DictDel(ycells[1].d, "execution_state")

\* The empty set was made on a document that held a cell and other metadata,
\* and get() has returned the defaults.
C23_Witness ==
    /\ EmptySet /\ ret # NoVal
    /\ Len(last.pre) = 1
    /\ "metadata" \in DOMAIN last.premeta /\ last.premeta["metadata"] # DefaultMetadata
    /\ ret["metadata"] = DefaultMetadata
    /\ OneDefaultCell

\* C24: when the granular replay is given an operation whose tag is none of
\* equal, replace, delete, insert, YUnicode.set raises; with the operations of
\* get_opcodes() it never does.
C24_UnknownTagRaises ==
    /\ (yu.op = "set_foreign" /\ yu.path = "granular") => yu.raised
    /\ yu.op = "set" => ~yu.raised

\* The replay met the unknown tag after it had written to the text: the set
\* raised and the text is neither the old nor the new one.
C24_Witness ==
    /\ yu.op = "set_foreign" /\ yu.path = "granular" /\ yu.raised
    /\ yu.writes # <<>>
    /\ yu.src # yu.pre /\ yu.src # Encode(yu.arg)

\* The cell list get(deduplicate=False) returns on a document.
CellsRead(M) == RunGet([M EXCEPT !.q = NewGetFrame(FALSE), !.calls = <<>>]).q.val["cells"]
\* What a task that runs at the checkpoint reads, what it would have read
\* before aset started and what it reads once the reconciliation is complete.
ReaderSees == CellsRead(Pack)
ReadBeforeASet == CellsRead(StartOfLastCall)
ReadAfterASet == {CellsRead(S) : S \in SyncSets}

\* C25: while aset is suspended at a checkpoint, a task that reads the
\* document sees the cell list as it was before aset started or the fully
\* reconciled list, never one with part of the deletions, moves and
\* insertions applied.
C25_AsStated ==
    ASetSuspended => ReaderSees \in {ReadBeforeASet} \cup ReadAfterASet

\* aset is suspended inside its transaction after the array was cleared and
\* before the desired cell is inserted: the reader sees no cell, where there
\* was one before and will be one after.
C25_Witness ==
    /\ ASetSuspended /\ txn.open
    /\ ReaderSees = <<>>
    /\ Len(ReadBeforeASet) = 1 /\ \A r \in ReadAfterASet : Len(r) = 1
    /\ calls = <<>>

\* aset is suspended at a checkpoint inside its transaction.
ASetInTransaction == ASetSuspended /\ txn.open
DesiredWithId(id) ==
    gen.new_cells[CHOOSE j \in 1..Len(gen.new_cells) : IdOf(gen.new_cells[j]) = id]
\* The retained cell is in the live array, whole: its content is the desired one.
RetainedCellIsWhole(id) ==
    \E k \in 1..Len(ycells) :
        /\ LiveId(k) = id
        /\ CellEq(cell_to_py(ycells[k], gen.meta), DesiredWithId(id))
PreHandles == {last.pre[k].h : k \in 1..Len(last.pre)}

\* C26: aset has no checkpoint inside the mutation of one cell: at every
\* checkpoint each cell updated granularly so far is in the live array with
\* the whole of its desired content, so a moved cell is never seen removed
\* and not yet reinserted, and a cell is never seen with part of its fields
\* updated.
C26_CellMutationsAreWhole ==
    ASetInTransaction => \A id \in gen.retained : RetainedCellIsWhole(id)

\* aset is suspended after it moved a retained cell: the cell was deleted and
\* created again at the desired index before the checkpoint.
C26_Witness ==
    /\ ASetInTransaction /\ gen.pc = "Y4"
    /\ Len(last.pre) = 2 /\ Len(ycells) = 2
    /\ LiveId(1) \in gen.retained
    /\ LiveId(1) = PreId(2)
    /\ ycells[1].h \notin PreHandles
    /\ ycells[2] = last.pre[1]

\* The content create_ycell gives the live cell of a desired cell that has an id.
CreatedContent(cell) == create_ycell(cell, 0, 0).ycell.d
LiveHandles == {ycells[k].h : k \in 1..Len(ycells)}
\* The desired cell whose update was refused is in the array as a new cell.
ReplacedByNewCell(r) ==
    /\ r.h \notin LiveHandles
    /\ r.j <= Len(ycells)
    /\ ycells[r.j].h \notin PreHandles
    /\ ycells[r.j].d = CreatedContent(Desired[r.j])
    /\ Cardinality({k \in 1..Len(ycells) : LiveId(k) = IdOf(Desired[r.j])}) = 1
ArrayIsDesired ==
    Content(ycells) = [k \in 1..Len(Desired) |-> CreatedContent(Desired[k])]
IdOccursOnce(j) ==
    \A i \in 1..Len(Desired) : IdOf(Desired[i]) = IdOf(Desired[j]) => i = j

\* C27 as stated: when the granular update of a matched cell is refused, at
\* the end of set the old live instance is gone, one new cell with that id and
\* the desired content is at the desired index, and the rest of the array is
\* what the desired list says.
C27_AsStated ==
    (last.op \in {"set", "raised"} /\ ret = NoVal) =>
        \A r \in last.refused : ReplacedByNewCell(r) /\ ArrayIsDesired

\* The document the last call started on, with another id on every live cell
\* that has the id of a refused cell: the desired cell then matches no live cell.
RefusedIds == {IdOf(Desired[r.j]) : r \in last.refused}
StartWithoutMatch ==
    [StartOfLastCall EXCEPT
        !.ycells = [k \in 1..Len(last.pre) |->
                       IF PreId(k) \in RefusedIds
                       THEN [last.pre[k] EXCEPT !.d = DictPut(@, "id", "unmatched")]
                       ELSE last.pre[k]]]
TreatedAsNew ==
    \E S \in RunSet([StartWithoutMatch EXCEPT !.g = NewFrame(last.arg)]) : S.ycells = ycells

\* C27: when set is given cells with distinct ids and the granular update of
\* a matched cell is refused, set returns with the old live instance gone and
\* one newly created cell with that id and the desired content at the desired
\* index; the array holds the desired cells, and it is, instance for instance,
\* the array set produces when the desired cell matches no live cell.
C27_RefusedCellIsNewCell ==
    (last.op \in {"set", "raised"} /\ ret = NoVal /\ DistinctNonEmptyIds(Desired)) =>
        /\ last.op = "set"
        /\ \A r \in last.refused : ReplacedByNewCell(r)
        /\ last.refused # {} => ArrayIsDesired /\ TreatedAsNew

\* set([B, A', C]) on the live array [A, B, C], the update of A refused: the
\* new A is at the second index, and B and C are the instances they were.
C27_Witness ==
    /\ last.op = "set" /\ ret = NoVal /\ DistinctNonEmptyIds(Desired)
    /\ Len(last.pre) = 3 /\ Len(ycells) = 3
    /\ last.refused = {[j |-> 2, h |-> last.pre[1].h]}
    /\ ycells[1] = last.pre[2] /\ ycells[3] = last.pre[3]
    /\ ycells[2].h \notin PreHandles
    /\ LiveId(2) = PreId(1)

\* set was called with one cell on an array of one cell with the same id:
\* _update_cell ran once, on that pair.
OneCellMatched ==
    /\ last.op = "set" /\ ret = NoVal
    /\ Len(Desired) = 1 /\ Len(last.pre) = 1
    /\ PreId(1) = IdOf(Desired[1])
OldCell == cell_to_py(last.pre[1], last.premeta)
NewCell == Desired[1]
FieldDiffers(key) ==
    /\ key \in DOMAIN OldCell \cap DOMAIN NewCell
    /\ ~ValEq(key, OldCell[key], NewCell[key])
StreamRefusal == FieldDiffers("outputs") /\ HasStream(NewCell["outputs"])
KindRefusal ==
    \E key \in CELL_KEY_TYPE_MAP :
        FieldDiffers(key) /\ ~(key = "outputs" => last.pre[1].outputs_kind = "Array")
AddedRefusal == \E key \in CELL_KEY_TYPE_MAP : key \in DOMAIN NewCell \ DOMAIN OldCell
UpdateFailed == last.refused # {}

\* C28: _update_cell returns failure exactly when outputs is a shared field
\* whose value differs and the new value holds a stream output, or a shared
\* differing field among metadata, source and outputs has a live handle that
\* is not of the expected kind, or a field among metadata, source and outputs
\* is in the desired cell and not in the current one; it returns success in
\* every other case.
C28_UpdateCellFailsExactlyWhen ==
    OneCellMatched =>
        /\ UpdateFailed <=> (StreamRefusal \/ KindRefusal \/ AddedRefusal)
        /\ ~UpdateFailed <=> last.retained = {PreId(1)}

\* Each of the three refusals happened alone.
C28_StreamWitness == OneCellMatched /\ UpdateFailed /\ StreamRefusal /\ ~KindRefusal /\ ~AddedRefusal
C28_KindWitness == OneCellMatched /\ UpdateFailed /\ KindRefusal /\ ~StreamRefusal /\ ~AddedRefusal
C28_AddedWitness == OneCellMatched /\ UpdateFailed /\ AddedRefusal /\ ~StreamRefusal /\ ~KindRefusal
\* The update of a cell that differs in several fields succeeded.
C28_Witness ==
    /\ OneCellMatched /\ ~UpdateFailed
    /\ FieldDiffers("cell_type") /\ FieldDiffers("source")
    /\ ycells[1].h = last.pre[1].h

\* The granular update of the matched cell changed its source.
SourceUpdated == OneCellMatched /\ ~UpdateFailed /\ FieldDiffers("source")
OldSource == SourceBytes(OldCell["source"])
NewSource == SourceBytes(NewCell["source"])
\* The delta of the text event of the source, and the delta YUnicode.set makes
\* for the same change.
SourceDelta == TextDelta(CellsCalls[1].text[1].old, CellsCalls[1].text[1].writes)
ReconcilerDelta == TextDelta(OldSource, UnicodeSet(OldSource, Decode(NewSource)).writes)

\* C29: when the granular update of a cell changes its source, the source
\* Text is patched through the text reconciler: the delta of its event is the
\* one YUnicode.set produces, which retains the unchanged ranges of a similar
\* source.
C29_AsStated ==
    SourceUpdated =>
        /\ Len(CellsCalls) = 1 /\ Len(CellsCalls[1].text) = 1
        /\ CellsCalls[1].text[1].old = OldSource
        /\ SourceDelta = ReconcilerDelta

\* set changed the source "a" of a retained cell to "ab": the event of the
\* source Text deletes the old text and inserts the new one, where the text
\* reconciler retains "a" and inserts "b".
C29_Witness ==
    /\ SourceUpdated
    /\ OldSource = <<97>> /\ NewSource = <<97, 98>>
    /\ ycells[1].h = last.pre[1].h
    /\ Len(CellsCalls) = 1 /\ Len(CellsCalls[1].text) = 1
    /\ SourceDelta = <<<<"delete", 1>>, <<"insert", <<97, 98>>>>>>
    /\ ReconcilerDelta = <<<<"retain", 1>>, <<"insert", <<98>>>>>>

\* ------------------------------------------------------------------ correlation by id
\* set on snapshots whose cells have the content of a live cell under the same
\* id, under another id, under the empty id and without id.
MatchPool == {MdCell("A", "a"), MdCell("B", "a"), MdCell("", "a"), NoIdCell}
MatchSnapshots ==
    {Snapshot(l, Full45) : l \in UNION {[1..k -> MatchPool] : k \in 0..MaxCells}}

NextMatch ==
    \/ \E v \in MatchSnapshots : Set(v)
    \/ Settle

SpecMatch == Init /\ [][NextMatch]_vars

PreIds == {PreId(k) : k \in 1..Len(last.pre)}
\* The desired cell at k has no id, or an id no live cell had when set started.
Unmatchable(k) == IdOf(Desired[k]) \in {NoneId, ""} \/ IdOf(Desired[k]) \notin PreIds
GeneratedIds == {Uuid(n) : n \in (last.preuuid + 1)..uuid}
\* The live cell at k is a new instance with the desired content, under the
\* desired id or, when the desired cell has none, under a generated id that no
\* other live cell has.
CreatedAsNew(k) ==
    /\ k <= Len(ycells)
    /\ ycells[k].h \notin PreHandles
    /\ IF "id" \in DOMAIN Desired[k]
       THEN ycells[k].d = CreatedContent(Desired[k])
       ELSE /\ LiveId(k) \in GeneratedIds \ PreIds
            /\ ycells[k].d = CreatedContent(DictPut(Desired[k], "id", LiveId(k)))
            /\ \A i \in 1..Len(ycells) : LiveId(i) = LiveId(k) => i = k
\* A cell of the prior array is still live only when its id was retained.
SurvivorsRetained ==
    \A p \in 1..Len(last.pre) :
        last.pre[p].h \in LiveHandles =>
            /\ PreId(p) \in last.retained
            /\ \E j \in 1..Len(Desired) : IdOf(Desired[j]) = PreId(p)
\* A cell of the prior array has the content of the desired cell at k.
ContentEqualLive(k) ==
    {p \in 1..Len(last.pre) :
        CellEq(DictDel(cell_to_py(last.pre[p], last.premeta), "id"),
               DictDel(Desired[k], "id"))}

\* The desired list repeats an id that was retained.
RepeatsRetainedId ==
    \E i, j \in 1..Len(Desired) :
        i < j /\ IdOf(Desired[i]) = IdOf(Desired[j]) /\ IdOf(Desired[i]) \in last.retained
UnmatchableAreNew == \A k \in 1..Len(Desired) : Unmatchable(k) => CreatedAsNew(k)

\* C30 as stated: when set ends, every desired cell without id or with an id
\* no live cell had is in the array as a new instance (under a generated id
\* when it has none), also when a live cell had the same content, and a cell
\* of the prior array is still live only if its own id was retained.
C30_AsStated ==
    (last.op \in {"set", "raised"} /\ ret = NoVal) =>
        UnmatchableAreNew /\ SurvivorsRetained

\* C30: a desired cell is correlated with a live cell through its id only:
\* when set returns, a desired cell without id, with the empty id or with an
\* id no live cell had is in the array as a new instance (under a generated id
\* when it has none), also when a live cell had the same content; a cell of
\* the prior array is still live only if its own id was retained; and set
\* raises, then without creating every such cell, exactly when the desired
\* list repeats a retained id.
C30_MatchedOnlyThroughId ==
    /\ (last.op = "set" /\ ret = NoVal) => UnmatchableAreNew
    /\ (last.op \in {"set", "raised"} /\ ret = NoVal) =>
          /\ SurvivorsRetained
          /\ last.op = "raised" <=> RepeatsRetainedId

\* set, on an array holding the markdown cell A, of the same cell without id
\* followed by the same cell under the id B: the array holds two new instances
\* and the cell A is gone.
C30_Witness ==
    /\ last.op = "set" /\ ret = NoVal
    /\ Len(last.pre) = 1 /\ PreId(1) = "A"
    /\ Desired = <<NoIdCell, MdCell("B", "a")>>
    /\ ContentEqualLive(1) = {1} /\ ContentEqualLive(2) = {1}
    /\ Len(ycells) = 2
    /\ CreatedAsNew(1) /\ CreatedAsNew(2)
    /\ LiveId(1) \in GeneratedIds /\ LiveId(2) = "B"
    /\ last.pre[1].h \notin LiveHandles

\* The positional pass is suspended before the desired cell at gen.index.
AtPosition == gen.pc = "Y4"
PositionId == IdOf(gen.new_cell_list[gen.index])
\* The desired id is retained and is not the id at this index of the live array.
RetainedElsewhere ==
    /\ AtPosition
    /\ PositionId # NoneId /\ PositionId \in gen.retained
    /\ ~(Len(ycells) >= gen.index /\ LiveId(gen.index) = PositionId)
\* The live array holds a cell at this index, with another id.
HoldsOtherId == Len(ycells) >= gen.index /\ LiveId(gen.index) # PositionId
LaterPositions == {p \in (gen.index + 1)..Len(ycells) : LiveId(p) = PositionId}
\* The machine after the positional step and its forward scan.
RECURSIVE FinishScan(_)
FinishScan(M) == IF M.g.pc = "Y5" THEN FinishScan(GenStep(M)) ELSE M
AfterPosition == FinishScan(GenStep(Pack))
\* The first n live ids are the first n desired ids.
PrefixPlaced(M, n) ==
    /\ Len(M.ycells) >= n
    /\ \A k \in 1..n : IdOf(M.ycells[k].d) = IdOf(gen.new_cell_list[k])

\* C31 as stated: whenever the desired id at an index is retained and the live
\* array holds another id at that index, the retained cell is at a later
\* index, and after the step the live ids up to the index are the desired ids.
C31_AsStated ==
    (RetainedElsewhere /\ HoldsOtherId) =>
        /\ LaterPositions # {}
        /\ PrefixPlaced(AfterPosition, gen.index)

\* C31: in the positional pass of a desired list with pairwise-distinct,
\* non-empty ids the live ids before the index are the desired ids; when the
\* desired id is retained and is not the id at the index, the live array holds
\* exactly one cell with that id, at a later index, and after the step the live
\* ids up to the index are the desired ids.
C31_RetainedCellIsLater ==
    (AtPosition /\ DistinctNonEmptyIds(gen.new_cell_list)) =>
        /\ PrefixPlaced(Pack, gen.index - 1)
        /\ RetainedElsewhere =>
              /\ HoldsOtherId
              /\ Cardinality(LaterPositions) = 1
              /\ AfterPosition.g.pc # "raised"
              /\ PrefixPlaced(AfterPosition, gen.index)

\* aset of [C, A, B] on the array [A, B, C] is suspended before the first
\* desired cell: C is retained and is two cells further in the array.
C31_Witness ==
    /\ RetainedElsewhere
    /\ gen.index = 1 /\ PositionId = "C"
    /\ Len(ycells) = 3 /\ LiveId(1) = "A" /\ LiveId(2) = "B"
    /\ LaterPositions = {3}
    /\ DistinctNonEmptyIds(gen.new_cell_list)
    /\ PrefixPlaced(AfterPosition, 1)

\* The deletion pass has just ended: the positional pass has not started.
EndOfDeletion == gen.pc = "Y4" /\ gen.index = 1 /\ gen.retained # {}
LiveIds == {LiveId(k) : k \in 1..Len(ycells)}
PrePos(k) == PosOf(last.pre, ycells[k].h)
OnePerRetainedId ==
    /\ LiveIds = gen.retained
    /\ \A a, b \in 1..Len(ycells) : LiveId(a) = LiveId(b) => a = b
InOriginalOrder ==
    /\ \A k \in 1..Len(ycells) : PrePos(k) # 0
    /\ \A a, b \in 1..Len(ycells) : a < b => PrePos(a) < PrePos(b)
\* Every live cell is the first cell of the prior array with its id, the
\* instance the identity index holds, with the content the update left.
FirstOccurrencesSurvive ==
    \A k \in 1..Len(ycells) :
        /\ PrePos(k) = FirstPos(LiveId(k))
        /\ ycells[k].h = gen.by_id[LiveId(k)]

\* C32: when a cell is retained, the deletion pass ends with one live cell per
\* retained id, in the order they had before the call, each being the first
\* cell of the prior array with its id and the instance the identity index
\* mapped; during the pass the scan index is between 0 and the array length.
C32_DeletionKeepsFirstOccurrences ==
    /\ EndOfDeletion => OnePerRetainedId /\ InOriginalOrder /\ FirstOccurrencesSurvive
    /\ gen.pc = "Y3" =>
          /\ gen.retained # {}
          /\ gen.index - 1 >= 0 /\ gen.index - 1 <= Len(ycells)

\* The deletion pass of aset([B, A]) on the array [A, A, B] has ended: the
\* second cell A is gone, the first one and B are the instances of before.
C32_Witness ==
    /\ EndOfDeletion
    /\ Len(last.pre) = 3 /\ PreId(1) = "A" /\ PreId(2) = "A" /\ PreId(3) = "B"
    /\ gen.retained = {"A", "B"}
    /\ Len(ycells) = 2
    /\ ycells[1].h = last.pre[1].h /\ ycells[2].h = last.pre[3].h
    /\ OnePerRetainedId

\* set called again with the snapshot of the call that has just returned.
SetAgain == RunSet([Pack EXCEPT !.calls = <<>>, !.g = NewFrame(last.arg)])
MetaCallsAgain == {SelectSeq(S.calls, LAMBDA c : c.topic = "meta") : S \in SetAgain}

\* C33 as stated: set writes nbformat, nbformat_minor and metadata only when
\* the desired value differs from the stored one, so a second set with the
\* same snapshot writes nothing to the meta map and emits no meta event.
C33_AsStated ==
    (last.op = "set" /\ ret = NoVal) => MetaCallsAgain = {<<>>}

\* set has returned for a snapshot without metadata: the meta map holds the
\* metadata with the two defaults, and a second set with the same snapshot
\* writes the metadata again, with the value it already has, and the meta
\* callback runs.
C33_Witness ==
    /\ last.op = "set" /\ ret = NoVal
    /\ "metadata" \notin DOMAIN last.arg
    /\ DOMAIN ymeta["metadata"] = {"language_info", "kernelspec"}
    /\ \A c \in MetaCallsAgain : Len(c) = 1 /\ c[1].keys = {"metadata"}
    /\ \A S \in SetAgain : S.ymeta = ymeta

\* The text handle after the first n corrected opcodes of the last set.
ReplayedPrefix(n) ==
    Replay(SubSeq(UFixed, 1, n), 1, Encode(yu.arg), 0,
           [src |-> yu.pre, writes |-> <<>>, ok |-> TRUE]).src
\* The new content up to the end of opcode n in the new string, followed by
\* the old content from its end in the old string.
NewThenOld(n) ==
    Slice(Encode(yu.arg), 0, UFixed[n][5]) \o Slice(yu.pre, UFixed[n][3], Len(yu.pre))
\* The net length change of the first n opcodes.
RECURSIVE NetChange(_)
NetChange(n) ==
    IF n = 0 THEN 0
    ELSE NetChange(n - 1)
         + (CASE UFixed[n][1] = "replace" ->
                    (UFixed[n][5] - UFixed[n][4]) - (UFixed[n][3] - UFixed[n][2])
              [] UFixed[n][1] = "delete" -> 0 - (UFixed[n][3] - UFixed[n][2])
              [] UFixed[n][1] = "insert" -> UFixed[n][5] - UFixed[n][4]
              [] OTHER -> 0)
UGranular == yu.op = "set" /\ yu.path = "granular"

\* The same with the end SequenceMatcher gave the opcode, before its
\* correction to a character boundary.
NewThenOldMatched(n) ==
    Slice(Encode(yu.arg), 0, UOpcodes[n][5]) \o Slice(yu.pre, UOpcodes[n][3], Len(yu.pre))

\* C34: during the granular replay of YUnicode.set, after each opcode the
\* content of the text handle is the new content up to the end of the opcode in
\* the new string followed by the old content from its end in the old string:
\* replace, delete and insert are applied at their old-string position
\* shifted by the net length change of the opcodes before them, an equal
\* opcode leaves the handle as it is, and the handle ends with the new content.
C34_ReplayKeepsPositions ==
    UGranular =>
        /\ \A n \in 1..Len(UFixed) :
              /\ ReplayedPrefix(n) = NewThenOldMatched(n)
              /\ UFixed[n][1] # "equal" => ReplayedPrefix(n) = NewThenOld(n)
              /\ UFixed[n][1] = "equal" => ReplayedPrefix(n) = ReplayedPrefix(n - 1)
        /\ yu.src = Encode(yu.arg)

\* A granular set in which an opcode that changes the text follows opcodes
\* that changed its length.
C34_Witness ==
    /\ UGranular
    /\ \E n \in 2..Len(UFixed) :
          /\ UFixed[n][1] # "equal" /\ NetChange(n - 1) # 0
          /\ ReplayedPrefix(n) = NewThenOld(n)

\* The work aset does from the checkpoint it is suspended at to the next one,
\* and the work aget does.
ASetWork == ASetNext(Pack)
AGetWork == AGetNext(Pack)
\* The live cells a step removed, created and patched.
Removed(R) == {h \in LiveHandles : PosOf(R.ycells, h) = 0}
Created(R) == {R.ycells[k].h : k \in 1..Len(R.ycells)} \ LiveHandles
Patched(R) ==
    {h \in LiveHandles \ Removed(R) : R.ycells[PosOf(R.ycells, h)] # ycells[PosOf(ycells, h)]}
TouchedIds(R) ==
    {IdOf(ycells[PosOf(ycells, h)].d) : h \in Removed(R) \cup Patched(R)}
    \cup {IdOf(R.ycells[PosOf(R.ycells, h)].d) : h \in Created(R)}
\* The step touched one cell at most: it patched it, removed it, created it,
\* or removed it and created it again.
OneCellTouched(R) ==
    /\ Cardinality(Removed(R)) <= 1 /\ Cardinality(Created(R)) <= 1
    /\ Cardinality(Patched(R)) <= 1 /\ Cardinality(TouchedIds(R)) <= 1
\* The step went on by one live cell or one desired cell at most.
OneCellRead(R) ==
    /\ R.g.pc = "Y1" => R.g.it <= gen.it + 1
    /\ R.g.pc = "Y2" => R.g.j <= gen.j + 1
    /\ (R.g.pc = "Y3" /\ gen.pc = "Y3") => R.g.index <= gen.index + 1
    /\ (R.g.pc = "Y4" /\ gen.pc \in {"Y4", "Y5"}) => R.g.index = gen.index + 1
    /\ (R.g.pc = "Y5" /\ gen.pc = "Y5") => R.g.cur = gen.cur + 1
\* The step ends the call: it holds the tail truncation and the metadata update.
LastStep(R) == R.g.pc \in {"done", "raised"}
\* The step ends the retention loop with no cell retained (line 345).
ClearsArray(R) == gen.pc = "Y2" /\ R.g.pc = "Y4" /\ R.g.retained = {}

\* C35 as stated: between two consecutive checkpoints aset touches one cell
\* at most, apart from the tail truncation and the metadata update of its last
\* step, and aget reads one cell.
C35_AsStated ==
    /\ ASetSuspended =>
          IF LastStep(ASetWork)
          THEN Cardinality(Created(ASetWork)) <= 1 /\ Patched(ASetWork) = {}
          ELSE OneCellTouched(ASetWork) /\ OneCellRead(ASetWork)
    /\ ggen.pc = "G1" =>
          /\ AGetWork.q.i <= ggen.i + 1
          /\ OneCellTouched(AGetWork)

\* C35: between two consecutive checkpoints aset reads one live cell or one
\* desired cell and touches one cell at most, apart from the tail truncation
\* and the metadata update of its last step and apart from the step that ends
\* the retention loop with no cell retained, which removes every live cell;
\* between two checkpoints aget reads one cell.
C35_OneCellPerCheckpoint ==
    /\ ASetSuspended =>
          /\ OneCellRead(ASetWork)
          /\ IF LastStep(ASetWork)
             THEN Cardinality(Created(ASetWork)) <= 1 /\ Patched(ASetWork) = {}
             ELSE IF ClearsArray(ASetWork)
             THEN Removed(ASetWork) = LiveHandles /\ Created(ASetWork) = {}
             ELSE OneCellTouched(ASetWork)
    /\ ggen.pc = "G1" =>
          /\ AGetWork.q.i <= ggen.i + 1
          /\ OneCellTouched(AGetWork)
          /\ Removed(AGetWork) = {} /\ Created(AGetWork) = {}

\* aset is suspended in the retention loop before its last desired cell, on an
\* array of two cells of which none is retained: the next step removes both.
C35_Witness ==
    /\ ASetSuspended /\ gen.pc = "Y2"
    /\ Len(ycells) = 2
    /\ ClearsArray(ASetWork)
    /\ Cardinality(Removed(ASetWork)) = 2
    /\ ASetWork.ycells = <<>>

\* An iteration of the deletion pass removes one cell or advances the scan
\* index by one; a positional step advances the desired index by one or
\* starts the forward scan, and a step of the scan advances the scan or the
\* desired index.
DeletionProgress ==
    (gen.pc = "Y3" /\ ASetWork.g.pc = "Y3") =>
        \/ Len(ASetWork.ycells) = Len(ycells) - 1 /\ ASetWork.g.index = gen.index
        \/ Len(ASetWork.ycells) = Len(ycells) /\ ASetWork.g.index = gen.index + 1
PositionProgress ==
    /\ (gen.pc = "Y4" /\ ASetWork.g.pc = "Y4") => ASetWork.g.index = gen.index + 1
    /\ (gen.pc = "Y4" /\ ASetWork.g.pc = "Y5") =>
          ASetWork.g.index = gen.index /\ ASetWork.g.cur = gen.index + 1
    /\ (gen.pc = "Y5" /\ ASetWork.g.pc = "Y5") =>
          ASetWork.g.cur = gen.cur + 1 /\ ASetWork.g.cur <= Len(ycells)
    /\ (gen.pc = "Y5" /\ ASetWork.g.pc = "Y4") => ASetWork.g.index = gen.index + 1
    /\ gen.pc \in {"Y4", "Y5"} =>
          ASetWork.g.pc \in {"Y4", "Y5", "done", "raised"} /\ gen.index <= Len(gen.new_cell_list)

\* C36: aset with no other task writing ends after finitely many checkpoints:
\* a suspended aset leads to its end, every iteration of the deletion pass
\* removes one cell or advances the scan index, and every positional step
\* advances the desired index or the forward scan.
C36_ASetTerminates ==
    /\ ASetSuspended ~> ASetReturned
    /\ [](ASetSuspended => DeletionProgress /\ PositionProgress)

\* aset has ended on an array of two cells with the same id, of which the
\* deletion pass removed the second.
C36_Witness ==
    /\ ASetReturned /\ gen.pc = "done"
    /\ Len(last.pre) = 2 /\ HasDuplicateIds(last.pre)
    /\ last.retained # {}
    /\ last.pre[1].h \in LiveHandles /\ last.pre[2].h \notin LiveHandles

\* ------------------------------------------------------------------ the kept state keys
\* YNotebook.set on a document whose host wrote dirty, path, document_id and
\* hash into the state map.  The snapshots hold up to MaxCells cells that may
\* repeat an id, with no notebook-level key, as nbformat 4.5, or with
\* notebook-level keys that are named like the kept state keys.
KeptCells == {CodeCell("A", "a"), CodeCell("B", "a")}
NamedLikeState ==
    DictPut(DictPut(DictPut(Full45, "dirty", PyInt(1)), "path", PyInt(7)), "document_id", PyInt(9))
KeptSnapshots ==
    {Snapshot(l, nb) : l \in UNION {[1..k -> KeptCells] : k \in 0..MaxCells},
                       nb \in {CellsOnly, Full45, NamedLikeState}}

NextKept ==
    \/ \E v \in KeptSnapshots : Set(v)
    \/ \E b \in {"true", "false"} : SetStateKey("dirty", b)
    \/ SetStateKey("path", "p")
    \/ SetStateKey("document_id", "d")
    \/ SetStateKey("hash", "h")
    \/ Settle

SpecKept == Init /\ [][NextKept]_vars

\* Two state maps hold the same under a key: the same value, or no entry.
SameEntry(s1, s2, key) ==
    /\ key \in DOMAIN s1 <=> key \in DOMAIN s2
    /\ key \in DOMAIN s1 \cap DOMAIN s2 => s1[key] = s2[key]
SetEnded == last.op \in {"set", "raised"} /\ ret = NoVal

\* C38: when YNotebook.set has ended, by returning or by raising, the state map
\* holds under dirty, under path and under document_id what it held before the
\* call (the same value, or no entry where there was none), whatever cells and
\* notebook-level keys the snapshot holds, and no state observer was told of a
\* change under one of the three keys.
C38_SetKeepsDirtyPathDocumentId ==
    SetEnded =>
        /\ \A key \in {"dirty", "path", "document_id"} :
              SameEntry(ystate, last.prestate, key)
        /\ \A k \in 1..Len(StateCalls) :
              StateCalls[k].keys \cap {"dirty", "path", "document_id"} = {}

\* set has returned on a state map that held dirty, path, document_id and hash,
\* with a snapshot that names other values under dirty, path and document_id:
\* the hash is gone and the three entries are the ones held before.
C38_Witness ==
    /\ last.op = "set" /\ ret = NoVal
    /\ last.prestate = [dirty |-> "false", path |-> "p", document_id |-> "d", hash |-> "h"]
    /\ "path" \in DOMAIN last.arg /\ last.arg["path"] = PyInt(7)
    /\ ystate = [dirty |-> "false", path |-> "p", document_id |-> "d"]

\* ------------------------------------------------------------------ the array is never left empty
\* set has returned, or aset has run to its end, without raising.
Completed ==
    \/ last.op \in {"set", "setgot"} /\ ret = NoVal
    \/ last.op = "aset" /\ gen.pc = "done"

\* The live array holds one cell, the default code cell of lines 301-311: a new
\* instance under an id generated during the call, which no prior cell had.
OnlyTheDefaultCell ==
    /\ Len(ycells) = 1
    /\ LiveId(1) \in GeneratedIds \ PreIds
    /\ ycells[1].h \notin PreHandles
    /\ ycells[1].d = [cell_type |-> "code", execution_count |-> None,
                      metadata |-> "{trusted}", outputs |-> <<>>, source |-> "",
                      id |-> LiveId(1), execution_state |-> "idle"]
    /\ ycells[1].outputs_kind = "Array"

\* C39: when YNotebook.set or aset has completed, the live cell array holds at
\* least one cell: for an empty desired cell list it holds exactly one cell, the
\* default code cell with a newly generated id, and for a non-empty desired
\* list it holds at least one cell and at most as many as the desired list.
C39_CompletedSetLeavesCells ==
    Completed =>
        /\ Len(ycells) >= 1
        /\ Desired = <<>> => OnlyTheDefaultCell
        /\ Desired # <<>> => Len(ycells) \in 1..Len(Desired)

\* aset has completed with an empty desired list on an array of two cells, and
\* the array holds the one default cell.
C39_Witness ==
    /\ last.op = "aset" /\ gen.pc = "done"
    /\ Desired = <<>>
    /\ Len(last.pre) = 2
    /\ OnlyTheDefaultCell

====
